---- MODULE Spec2Model ----
(***************************************************************************)
(* State-machine model of the EV / V2G co-simulation components:           *)
(* V2GControllerComponent, UserComponent, StationComponent, GridComponent. *)
(*                                                                         *)
(* Units (fixed point, all quantities are integers):                       *)
(*   state of charge : 1/100 of a percent   (Pct(50) is 50.0 %)            *)
(*   power           : 1/10000 kW           (KW(22) is 22.0 kW)            *)
(*   energy          : 1/10000 kWh                                         *)
(*   battery capacity: kWh                                                 *)
(*   time            : seconds since the simulation's first instant        *)
(* With these units  capacity * (soc_a - soc_b) / 100  kWh  is the integer *)
(* capacity * (soc_a - soc_b), and the only divisions left are the ones by *)
(* the epoch length and by the battery capacity.                           *)
(***************************************************************************)
EXTENDS Integers, Sequences, FiniteSets, TLC

VARIABLES
    ctrl,       \* the V2GControllerComponent object
    ctrl_sent,  \* messages the controller published in the current epoch, in order
    epoch,      \* the latest Epoch message: [number, start_time, end_time]
    hist,       \* observation of the run: what was delivered / emitted in this epoch
    usr,        \* the UserComponent objects, by user id
    stn,        \* the StationComponent objects, by station id
    grid,       \* the GridComponent object
    net,        \* messages published and not yet handled, per recipient
    pc          \* which specification's phase the run is in

vars == <<ctrl, ctrl_sent, epoch, hist, usr, stn, grid, net, pc>>

----------------------------------------------------------------------------
(* Units and small helpers                                                 *)

Pct(x) == x * 100
KW(x) == x * 10000
HourSeconds == 60 * 60

Min2(a, b) == IF a <= b THEN a ELSE b
Max2(a, b) == IF a >= b THEN a ELSE b
Min4(a, b, c, d) == Min2(Min2(a, b), Min2(c, d))

RECURSIVE SumSeq(_)
SumSeq(s) == IF s = <<>> THEN 0 ELSE Head(s) + SumSeq(Tail(s))

SeqToSet(s) == {s[i] : i \in 1..Len(s)}

RECURSIVE SelectPowers(_)
SelectPowers(s) == IF s = <<>> THEN <<>> ELSE <<Head(s).power>> \o SelectPowers(Tail(s))

----------------------------------------------------------------------------
(* Program constants                                                       *)

DEFAULT_MIN_STATE_OF_CHARGE == 50
MAX_STATE_OF_CHARGE == 100
\* default of UserData.arrival_time / target_time and PowerInfo.target_time
\* ("2023-01-01T00:00:00.000Z"), taken as the simulation's first instant
DEFAULT_TIME == 0

----------------------------------------------------------------------------
(* Data classes of the controller                                          *)

UserData(user_id, station_id, state_of_charge, car_battery_capacity, car_max_power) ==
    [user_id |-> user_id,
     station_id |-> station_id,
     state_of_charge |-> state_of_charge,
     car_battery_capacity |-> car_battery_capacity,
     car_max_power |-> car_max_power,
     target_state_of_charge |-> 0,
     required_energy |-> 0,
     arrival_time |-> DEFAULT_TIME,
     target_time |-> DEFAULT_TIME,
     discharge |-> FALSE]

StationData(station_id, max_power, charging_cost, compensation_amount) ==
    [station_id |-> station_id,
     max_power |-> max_power,
     charging_cost |-> charging_cost,
     compensation_amount |-> compensation_amount]

\* PowerInfo(user_id = 0, station_id) with every other field at its default
EmptyPowerInfo(station_id) ==
    [user_id |-> 0,
     station_id |-> station_id,
     station_max_power |-> 0,
     car_max_power |-> 0,
     state_of_charge |-> 0,
     target_state_of_charge |-> 0,
     required_energy |-> 0,
     target_time |-> DEFAULT_TIME]

PowerInfo(user, station) ==
    [user_id |-> user.user_id,
     station_id |-> user.station_id,
     station_max_power |-> station.max_power,
     car_max_power |-> user.car_max_power,
     state_of_charge |-> user.state_of_charge,
     target_state_of_charge |-> user.target_state_of_charge,
     required_energy |-> user.required_energy,
     target_time |-> user.target_time]

----------------------------------------------------------------------------
(* Static data files the controller reads                                  *)

\* A dictionary key as Python compares it: an int never equals a str.
IntKey(n) == <<"int", n>>
StrKey(n) == <<"str", n>>

\* v2g_user_preferences.csv as _load_user_preferences_from_file stores it:
\* keyed by row["UserID"], the text of the cell; values already in model units
\* (MinimumSOC as 1/100 percent of the product MinimumSOC * 100).
user_preferences ==
    (StrKey(1) :> [MinimumSOC |-> Pct(80), MaxCostForCharging |-> 1, DischargePriceThreshold |-> 1])

\* user.user_id in self._user_preferences, user_id being the int of the message
HasPreference(user_id) == IntKey(user_id) \in DOMAIN user_preferences

\* grid_load_daily.csv: the hours of the day whose row has grid_on_load = "1"
grid_load_daily == {1}

\* the row whose time is the "%H:00" of the epoch's start_time
_is_grid_under_load(ep) == ((ep.start_time \div HourSeconds) % 24) \in grid_load_daily

----------------------------------------------------------------------------
(* V2GControllerComponent: construction and epoch reset                    *)

V2GControllerComponent(total_users, total_stations) ==
    [users |-> <<>>,
     stations |-> <<>>,
     total_max_power |-> 0,
     current_available_power |-> 0,
     total_user_count |-> total_users,
     total_station_count |-> total_stations,
     car_metadata_received |-> FALSE,
     station_state_received |-> FALSE,
     user_state_received |-> FALSE,
     car_state_received |-> FALSE,
     grid_state_received |-> FALSE,
     power_requirement_message_sent |-> FALSE,
     epoch_car_metadata_count |-> 0,
     epoch_station_state_count |-> 0,
     epoch_user_state_count |-> 0,
     epoch_car_state_count |-> 0,
     used_total_power |-> 0,
     total_max_power_output_received |-> FALSE,
     send_car_discharge_power_requirement |-> FALSE,
     completed_epoch |-> 0]

\* clear_epoch_variables treating the metadata as epoch state: the users, their
\* count and the metadata condition are reset with the rest
V2G_clear_epoch_variables_ResetsMetaData(c) ==
    [c EXCEPT !.epoch_station_state_count = 0,
              !.epoch_user_state_count = 0,
              !.epoch_car_state_count = 0,
              !.epoch_car_metadata_count = 0,
              !.used_total_power = 0,
              !.car_metadata_received = FALSE,
              !.station_state_received = FALSE,
              !.user_state_received = FALSE,
              !.car_state_received = FALSE,
              !.power_requirement_message_sent = FALSE,
              !.users = <<>>,
              !.stations = <<>>,
              !.send_car_discharge_power_requirement = FALSE]

V2G_clear_epoch_variables(c) ==
    [c EXCEPT !.epoch_station_state_count = 0,
              !.epoch_user_state_count = 0,
              !.epoch_car_state_count = 0,
              !.used_total_power = 0,
              !.station_state_received = FALSE,
              !.user_state_received = FALSE,
              !.car_state_received = FALSE,
              !.power_requirement_message_sent = FALSE,
              !.stations = <<>>,
              !.send_car_discharge_power_requirement = FALSE]

----------------------------------------------------------------------------
(* V2GControllerComponent: the PowerRequirement burst                      *)

\* KeyLess with the demand compared ascending (the sign of the key forgotten)
KeyLess_EnergyAscending(a, b) ==
    \/ a.target_time < b.target_time
    \/ a.target_time = b.target_time /\ a.required_energy < b.required_energy

\* key = (target_time, -required_energy), compared as Python compares tuples
KeyLess(a, b) ==
    \/ a.target_time < b.target_time
    \/ a.target_time = b.target_time /\ (0 - a.required_energy) < (0 - b.required_energy)

\* insert x into the sorted s behind every element whose key is not greater
RECURSIVE InsertByKey(_, _)
InsertByKey(s, x) ==
    IF s = <<>> THEN <<x>>
    ELSE IF KeyLess(x, Head(s)) THEN <<x>> \o s
    ELSE <<Head(s)>> \o InsertByKey(Tail(s), x)

\* sorted(s, key = ...): stable
RECURSIVE SortedByKeyFrom(_, _)
SortedByKeyFrom(acc, s) ==
    IF s = <<>> THEN acc ELSE SortedByKeyFrom(InsertByKey(acc, Head(s)), Tail(s))

\* sorted(...) replaced by the arrival order: the list is returned as it came
SortedByKey_Unsorted(s) == s

SortedByKey(s) == SortedByKeyFrom(<<>>, s)

\* IsConnected as an overlap test: the epoch is not disjoint from the window
IsConnected_Overlap(user, ep) ==
    ~(ep.end_time <= user.arrival_time \/ ep.start_time >= user.target_time)

IsConnected(user, ep) ==
    ep.start_time >= user.arrival_time /\ ep.end_time <= user.target_time

SelectConnected(users, ep) == SelectSeq(users, LAMBDA u : IsConnected(u, ep))

\* the PowerInfo of every connected user carrying this station's id, in list order
RECURSIVE StationPowerInfos(_, _)
StationPowerInfos(station, connected_users) ==
    IF connected_users = <<>> THEN <<>>
    ELSE (IF Head(connected_users).station_id = station.station_id
          THEN <<PowerInfo(Head(connected_users), station)>>
          ELSE <<>>) \o StationPowerInfos(station, Tail(connected_users))

\* AddStation without the empty slot of a station nobody is connected to
AddStation_NoVacantSlot(station, here, rest) ==
    [connected |-> here \o rest.connected, empty |-> rest.empty]

\* one station's turn of the outer loop: its PowerInfos, or one empty slot
AddStation(station, here, rest) ==
    [connected |-> here \o rest.connected,
     empty |-> (IF here = <<>> THEN <<EmptyPowerInfo(station.station_id)>> ELSE <<>>) \o rest.empty]

RECURSIVE CollectPowerInfos(_, _)
CollectPowerInfos(stations, connected_users) ==
    IF stations = <<>> THEN [connected |-> <<>>, empty |-> <<>>]
    ELSE AddStation(Head(stations),
                    StationPowerInfos(Head(stations), connected_users),
                    CollectPowerInfos(Tail(stations), connected_users))

\* power_requirements = sorted(power_requirements) + empty_power_requirements
JoinPowerInfos(lists) == SortedByKey(lists.connected) \o lists.empty

_calculate_power_requirements(stations, connected_users) ==
    JoinPowerInfos(CollectPowerInfos(stations, connected_users))

PowerRequirementMessage(station_id, user_id, power) ==
    [type |-> "PowerRequirement", station_id |-> station_id, user_id |-> user_id, power |-> power]

\* PowerForStation without the remaining capacity among the limits
PowerForStation_IgnoreRemaining(power_info, available, used, epoch_length) ==
    Min2(Min2(power_info.station_max_power, power_info.car_max_power),
         (power_info.required_energy * HourSeconds) \div epoch_length)

\* PowerForStation without the car's limit among the limits
PowerForStation_IgnoreCarMax(power_info, available, used, epoch_length) ==
    Min2(Min2(power_info.station_max_power, available - used),
         (power_info.required_energy * HourSeconds) \div epoch_length)

\* min(station_max_power, car_max_power, available - used, required_energy / (epoch_length / 3600))
PowerForStation(power_info, available, used, epoch_length) ==
    Min4(power_info.station_max_power,
         power_info.car_max_power,
         available - used,
         (power_info.required_energy * HourSeconds) \div epoch_length)

\* the conditions under which the loop computes a power for a slot
Allocates(power_info, available, used) ==
    /\ power_info.user_id # 0
    /\ used < available
    /\ power_info.target_state_of_charge > power_info.state_of_charge

SlotPower(power_info, available, used, epoch_length) ==
    IF Allocates(power_info, available, used)
    THEN PowerForStation(power_info, available, used, epoch_length)
    ELSE 0

\* The loop over power_requirements. Returns the messages published, the value of
\* _used_total_power, and whether the division by epoch_length / 3600 raised
\* ZeroDivisionError (which ends the loop: nothing catches it in the burst).
RECURSIVE AllocateLoop(_, _, _, _, _)
RECURSIVE AllocateSlot(_, _, _, _, _, _, _)
AllocateSlot(rest, available, used, epoch_length, sent, power_info, power) ==
    AllocateLoop(rest, available, used + power, epoch_length,
                 Append(sent, PowerRequirementMessage(power_info.station_id, power_info.user_id,
                                                      power)))

AllocateLoop(power_requirements, available, used, epoch_length, sent) ==
    IF power_requirements = <<>> THEN [sent |-> sent, used |-> used, raised |-> FALSE]
    ELSE IF Allocates(Head(power_requirements), available, used) /\ epoch_length = 0
    THEN [sent |-> sent, used |-> used, raised |-> TRUE]
    ELSE AllocateSlot(Tail(power_requirements), available, used, epoch_length, sent,
                      Head(power_requirements),
                      SlotPower(Head(power_requirements), available, used, epoch_length))

BurstResult(c, loop) ==
    [c |-> [c EXCEPT !.used_total_power = loop.used], sent |-> loop.sent, raised |-> loop.raised]

_send_power_requirement_message(c, ep) ==
    BurstResult(c,
        AllocateLoop(_calculate_power_requirements(c.stations,
                                                   SortedByKey(SelectConnected(c.users, ep))),
                     c.current_available_power, c.used_total_power,
                     ep.end_time - ep.start_time, <<>>))

----------------------------------------------------------------------------
(* V2GControllerComponent: the CarDischargePowerRequirement burst          *)

CarDischargePowerRequirementMessage(station_id, user_id, power) ==
    [type |-> "CarDischargePowerRequirement", station_id |-> station_id, user_id |-> user_id,
     power |-> power]

\* Power = car_battery_capacity * (state_of_charge - target_state_of_charge) / 100
_send_single_discharge_power_requirement_message(user) ==
    CarDischargePowerRequirementMessage(user.station_id, user.user_id,
        user.car_battery_capacity * (user.state_of_charge - user.target_state_of_charge))

RECURSIVE DischargeMessages(_)
DischargeMessages(discharge_users) ==
    IF discharge_users = <<>> THEN <<>>
    ELSE <<_send_single_discharge_power_requirement_message(Head(discharge_users))>>
         \o DischargeMessages(Tail(discharge_users))

\* The loop rebuilds discharge_users once per user; inside the comprehension
\* arrival_time and target_time are those of the loop's user, so the list kept is
\* the one built for the last user of self._users (empty when there is no user).
DischargeUsers(users, last, ep) == SelectSeq(users, LAMBDA u : u.discharge /\ IsConnected(last, ep))

_send_car_discharge_power_requirement_message(c, ep) ==
    IF c.users = <<>> THEN <<>>
    ELSE DischargeMessages(DischargeUsers(c.users, c.users[Len(c.users)], ep))

----------------------------------------------------------------------------
(* V2GControllerComponent.process_epoch                                    *)

\* SnapshotComplete without the UserState condition
SnapshotComplete_IgnoreUserState(c) ==
    /\ c.grid_state_received
    /\ c.car_metadata_received
    /\ c.station_state_received

SnapshotComplete(c) ==
    /\ c.grid_state_received
    /\ c.car_metadata_received
    /\ c.station_state_received
    /\ c.user_state_received

\* the three "all ... received" tests at the head of process_epoch
UpdateReceivedFlags(c) ==
    [c EXCEPT !.car_metadata_received = @ \/ c.epoch_car_metadata_count = c.total_user_count,
              !.station_state_received = @ \/ c.epoch_station_state_count = c.total_station_count,
              !.user_state_received = @ \/ c.epoch_user_state_count = c.total_user_count]

\* the flag is set after the burst returned; an exception leaves it unset
MarkPowerRequirementSent(b) ==
    IF b.raised THEN b ELSE [b EXCEPT !.c.power_requirement_message_sent = TRUE]

PowerRequirementStep(c, ep) ==
    IF ~c.power_requirement_message_sent /\ SnapshotComplete(c)
    THEN MarkPowerRequirementSent(_send_power_requirement_message(c, ep))
    ELSE [c |-> c, sent |-> <<>>, raised |-> FALSE]

DischargeStep(r, ep) ==
    IF ~r.raised /\ ~r.c.send_car_discharge_power_requirement /\ SnapshotComplete(r.c)
    THEN [c |-> [r.c EXCEPT !.send_car_discharge_power_requirement = TRUE],
          sent |-> r.sent \o _send_car_discharge_power_requirement_message(r.c, ep),
          raised |-> FALSE]
    ELSE r

\* V2G_Return without the PowerRequirement burst among the conditions
V2G_Return_IgnoreBurst(c, sent) ==
    [c |-> c, sent |-> sent, raised |-> FALSE,
     ret |-> c.grid_state_received /\ c.car_state_received]

V2G_Return(c, sent) ==
    [c |-> c, sent |-> sent, raised |-> FALSE,
     ret |-> c.grid_state_received /\ c.power_requirement_message_sent /\ c.car_state_received]

CarStateStep(r) ==
    IF r.raised THEN [c |-> r.c, sent |-> r.sent, raised |-> TRUE, ret |-> FALSE]
    ELSE V2G_Return([r.c EXCEPT !.car_state_received =
                                    @ \/ r.c.epoch_car_state_count = r.c.total_user_count],
                    r.sent)

V2G_process_epoch(c, ep) ==
    CarStateStep(DischargeStep(PowerRequirementStep(UpdateReceivedFlags(c), ep), ep))

\* on True the epoch is completed and Status Ready is sent
V2G_Complete(r, ep) ==
    [c |-> IF r.ret THEN [r.c EXCEPT !.completed_epoch = ep.number] ELSE r.c, sent |-> r.sent]

\* AbstractSimulationComponent.start_epoch as the components rely on it: nothing
\* before the first Epoch message or once the epoch is completed; otherwise
\* process_epoch, and on True the epoch is completed (Status Ready).
V2G_start_epoch(c, ep) ==
    IF ep.number = 0 \/ c.completed_epoch = ep.number
    THEN [c |-> c, sent |-> <<>>]
    ELSE V2G_Complete(V2G_process_epoch(c, ep), ep)

----------------------------------------------------------------------------
(* V2GControllerComponent.general_message_handler                          *)

UserIds(users) == {users[i].user_id : i \in 1..Len(users)}
StationIds(stations) == {stations[i].station_id : i \in 1..Len(stations)}

\* next((s for s in self._stations if s.station_id == station_id), None)
HasStation(stations, station_id) == station_id \in StationIds(stations)
FirstStation(stations, station_id) ==
    stations[CHOOSE i \in 1..Len(stations) :
                 /\ stations[i].station_id = station_id
                 /\ \A j \in 1..(i - 1) : stations[j].station_id # station_id]

UserIndex(users, user_id) ==
    CHOOSE i \in 1..Len(users) :
        /\ users[i].user_id = user_id
        /\ \A j \in 1..(i - 1) : users[j].user_id # user_id

\* required_energy = car_battery_capacity * (target_state_of_charge - state_of_charge) / 100
RequiredEnergy(user) ==
    user.car_battery_capacity * (user.target_state_of_charge - user.state_of_charge)

WithRequiredEnergy(user) == [user EXCEPT !.required_energy = RequiredEnergy(user)]

\* OnCarMetaData counting the CarMetaData of a user it already knows
OnCarMetaData_CountsDuplicate(c, ep, m) ==
    IF m.user_id \in UserIds(c.users)
    THEN V2G_start_epoch([c EXCEPT !.epoch_car_metadata_count = @ + 1], ep)
    ELSE V2G_start_epoch(
             [c EXCEPT !.users = Append(@, UserData(m.user_id, m.station_id, m.state_of_charge,
                                                    m.car_battery_capacity, m.car_max_power)),
                       !.epoch_car_metadata_count = @ + 1],
             ep)

OnCarMetaData(c, ep, m) ==
    IF m.user_id \in UserIds(c.users)
    THEN [c |-> c, sent |-> <<>>]
    ELSE V2G_start_epoch(
             [c EXCEPT !.users = Append(@, UserData(m.user_id, m.station_id, m.state_of_charge,
                                                    m.car_battery_capacity, m.car_max_power)),
                       !.epoch_car_metadata_count = @ + 1],
             ep)

OnStationState(c, ep, m) ==
    IF m.station_id \in StationIds(c.stations)
    THEN [c |-> c, sent |-> <<>>]
    ELSE V2G_start_epoch(
             [c EXCEPT !.stations = Append(@, StationData(m.station_id, m.max_power,
                                                          m.charging_cost, m.compensation_amount)),
                       !.epoch_station_state_count = @ + 1],
             ep)

UserStateUpdate(user, m) ==
    WithRequiredEnergy(
        [user EXCEPT !.target_state_of_charge =
                         IF HasPreference(user.user_id)
                         THEN user_preferences[IntKey(user.user_id)].MinimumSOC
                         ELSE Pct(DEFAULT_MIN_STATE_OF_CHARGE),
                     !.target_time = m.target_time,
                     !.arrival_time = m.arrival_time])

OnUserState(c, ep, m) ==
    IF m.user_id \notin UserIds(c.users)
    THEN [c |-> c, sent |-> <<>>]
    ELSE V2G_start_epoch(
             [c EXCEPT !.users[UserIndex(c.users, m.user_id)] = UserStateUpdate(@, m),
                       !.epoch_user_state_count = @ + 1],
             ep)

\* the conditions under which _check_user_discharge_need sets user.discharge
DischargeConditions(c, ep, user) ==
    /\ _is_grid_under_load(ep)
    /\ HasStation(c.stations, user.station_id)
    /\ user_preferences[IntKey(user.user_id)].DischargePriceThreshold
           <= FirstStation(c.stations, user.station_id).compensation_amount

DischargeNeed(user) == [user |-> user, need |-> user.discharge]

\* Returns the user with the discharge flag as the check leaves it, and the
\* value the check returns.
_check_user_discharge_need(c, ep, user) ==
    IF ~HasPreference(user.user_id)
    THEN [user |-> user, need |-> FALSE]
    ELSE DischargeNeed([user EXCEPT !.discharge = @ \/ DischargeConditions(c, ep, user)])

\* discharge needed: above the target, give up the demand and lower the target
LowerTarget(user) ==
    IF user.state_of_charge > user.target_state_of_charge
    THEN [user EXCEPT !.required_energy = 0,
                      !.target_state_of_charge =
                          Max2(user.state_of_charge - Pct(10),
                               user_preferences[IntKey(user.user_id)].MinimumSOC)]
    ELSE user

\* at the target and willing to pay the station's price: raise the target
RaiseTarget(c, user) ==
    IF /\ user.state_of_charge = user.target_state_of_charge
       /\ HasStation(c.stations, user.station_id)
       /\ HasPreference(user.user_id)
       /\ user_preferences[IntKey(user.user_id)].MaxCostForCharging
              >= FirstStation(c.stations, user.station_id).charging_cost
       /\ user.target_state_of_charge < Pct(MAX_STATE_OF_CHARGE)
    THEN WithRequiredEnergy([user EXCEPT !.target_state_of_charge = Pct(MAX_STATE_OF_CHARGE)])
    ELSE user

AfterDischargeCheck(c, chk) ==
    IF chk.need THEN LowerTarget(chk.user) ELSE RaiseTarget(c, chk.user)

CarStateUpdate(c, ep, user, m) ==
    AfterDischargeCheck(c,
        _check_user_discharge_need(c, ep, [user EXCEPT !.state_of_charge = m.state_of_charge]))

OnCarState(c, ep, m) ==
    IF m.user_id \notin UserIds(c.users)
    THEN [c |-> c, sent |-> <<>>]
    ELSE V2G_start_epoch(
             [c EXCEPT !.users[UserIndex(c.users, m.user_id)] = CarStateUpdate(c, ep, @, m),
                       !.epoch_car_state_count = @ + 1],
             ep)

OnGridState(c, ep, m) ==
    V2G_start_epoch(
        [c EXCEPT !.grid_state_received = TRUE,
                  !.total_max_power = IF c.total_max_power_output_received THEN @ ELSE m.max_power,
                  !.total_max_power_output_received = TRUE,
                  !.current_available_power = m.current_power],
        ep)

V2G_general_message_handler(c, ep, m) ==
    CASE m.type = "CarMetaData" -> OnCarMetaData(c, ep, m)
      [] m.type = "StationState" -> OnStationState(c, ep, m)
      [] m.type = "UserState" -> OnUserState(c, ep, m)
      [] m.type = "CarState" -> OnCarState(c, ep, m)
      [] m.type = "GridState" -> OnGridState(c, ep, m)
      [] OTHER -> [c |-> c, sent |-> <<>>]

----------------------------------------------------------------------------
(* Messages the other components publish                                   *)

CarMetaDataMessage(user_id, station_id, state_of_charge, car_battery_capacity, car_max_power) ==
    [type |-> "CarMetaData", user_id |-> user_id, station_id |-> station_id,
     state_of_charge |-> state_of_charge, car_battery_capacity |-> car_battery_capacity,
     car_max_power |-> car_max_power]

UserStateMessage(user_id, target_time, arrival_time) ==
    [type |-> "UserState", user_id |-> user_id, target_time |-> target_time,
     arrival_time |-> arrival_time]

CarStateMessage(user_id, station_id, state_of_charge) ==
    [type |-> "CarState", user_id |-> user_id, station_id |-> station_id,
     state_of_charge |-> state_of_charge]

PowerDischargeCarToStationMessage(user_id, station_id, power) ==
    [type |-> "PowerDischargeCarToStation", user_id |-> user_id, station_id |-> station_id,
     power |-> power]

StationStateMessage(station_id, max_power, charging_cost, compensation_amount) ==
    [type |-> "StationState", station_id |-> station_id, max_power |-> max_power,
     charging_cost |-> charging_cost, compensation_amount |-> compensation_amount]

PowerOutputMessage(station_id, user_id, power_output) ==
    [type |-> "PowerOutput", station_id |-> station_id, user_id |-> user_id,
     power_output |-> power_output]

PowerDischargeStationToGridMessage(power, station_id, grid_id) ==
    [type |-> "PowerDischargeStationToGrid", power |-> power, station_id |-> station_id,
     grid_id |-> grid_id]

TotalChargingCostMessage(total_charging_cost) ==
    [type |-> "TotalChargingCost", total_charging_cost |-> total_charging_cost]

GridStateMessage(grid_id, max_power, current_power) ==
    [type |-> "GridState", grid_id |-> grid_id, max_power |-> max_power,
     current_power |-> current_power]

GridLoadStatusMessage(load_status) ==
    [type |-> "GridLoadStatus", load_status |-> load_status]

----------------------------------------------------------------------------
(* UserComponent                                                           *)

UserComponent(user_id, station_id, state_of_charge, car_max_power, car_battery_capacity, target_time, arrival_time) ==
    [user_id |-> user_id,
     station_id |-> station_id,
     state_of_charge |-> state_of_charge,
     car_battery_capacity |-> car_battery_capacity,
     car_max_power |-> car_max_power,
     target_time |-> target_time,
     arrival_time |-> arrival_time,
     car_metadata_sent |-> FALSE,
     user_state_sent |-> FALSE,
     power_output_received |-> FALSE,
     car_state_sent |-> FALSE,
     power_discharge_car_to_station_message_sent |-> FALSE,
     car_discharge_power_requirement_received |-> FALSE,
     discharged_power |-> 0,
     completed_epoch |-> 0]

User_clear_epoch_variables(u) ==
    [u EXCEPT !.user_state_sent = FALSE,
              !.car_state_sent = FALSE,
              !.power_output_received = FALSE,
              !.power_discharge_car_to_station_message_sent = FALSE,
              !.car_discharge_power_requirement_received = FALSE]

\* "Not in a station": the epoch ends by the arrival or starts at or after the target
NotInStation(u, ep) == ep.end_time <= u.arrival_time \/ ep.start_time >= u.target_time

\* CarMetaDataStep without the test of _car_metadata_sent
CarMetaDataStep_EveryPass(u, ep) ==
    IF ep.number = 1
    THEN [u |-> [u EXCEPT !.car_metadata_sent = TRUE],
          sent |-> <<CarMetaDataMessage(u.user_id, u.station_id, u.state_of_charge,
                                        u.car_battery_capacity, u.car_max_power)>>]
    ELSE [u |-> u, sent |-> <<>>]

CarMetaDataStep(u, ep) ==
    IF ~u.car_metadata_sent /\ ep.number = 1
    THEN [u |-> [u EXCEPT !.car_metadata_sent = TRUE],
          sent |-> <<CarMetaDataMessage(u.user_id, u.station_id, u.state_of_charge,
                                        u.car_battery_capacity, u.car_max_power)>>]
    ELSE [u |-> u, sent |-> <<>>]

UserStateStep(r, ep) ==
    IF ~r.u.user_state_sent
    THEN [u |-> [r.u EXCEPT !.user_state_sent = TRUE,
                            !.power_output_received = @ \/ NotInStation(r.u, ep)],
          sent |-> Append(r.sent, UserStateMessage(r.u.user_id, r.u.target_time,
                                                   r.u.arrival_time))]
    ELSE r

User_CarStateStep(r) ==
    IF r.u.power_output_received /\ ~r.u.car_state_sent
    THEN [u |-> [r.u EXCEPT !.car_state_sent = TRUE],
          sent |-> Append(r.sent, CarStateMessage(r.u.user_id, r.u.station_id,
                                                  r.u.state_of_charge))]
    ELSE r

PowerDischargeCarToStationStep(r) ==
    IF /\ r.u.car_discharge_power_requirement_received
       /\ ~r.u.power_discharge_car_to_station_message_sent
    THEN [u |-> [r.u EXCEPT !.power_discharge_car_to_station_message_sent = TRUE],
          sent |-> Append(r.sent, PowerDischargeCarToStationMessage(r.u.user_id, r.u.station_id,
                                                                    r.u.discharged_power))]
    ELSE r

User_Return(r) == [u |-> r.u, sent |-> r.sent, ret |-> r.u.user_state_sent /\ r.u.car_state_sent]

User_process_epoch(u, ep) ==
    User_Return(PowerDischargeCarToStationStep(User_CarStateStep(
        UserStateStep(CarMetaDataStep(u, ep), ep))))

User_Complete(r, ep) ==
    [u |-> IF r.ret THEN [r.u EXCEPT !.completed_epoch = ep.number] ELSE r.u, sent |-> r.sent]

User_start_epoch(u, ep) ==
    IF ep.number = 0 \/ u.completed_epoch = ep.number
    THEN [u |-> u, sent |-> <<>>]
    ELSE User_Complete(User_process_epoch(u, ep), ep)

\* new_energy = (power * epoch_length) / 3600
NewEnergy(power, epoch_length) == (power * epoch_length) \div HourSeconds

\* new_soc = min((original_energy + new_energy) / car_battery_capacity * 100, 100.0)
SocAfterCharge(u, power, epoch_length) ==
    Min2((u.car_battery_capacity * u.state_of_charge + NewEnergy(power, epoch_length))
             \div u.car_battery_capacity,
         Pct(100))

\* new_soc = min((original_energy - new_energy) / car_battery_capacity * 100, 100.0)
SocAfterDischarge(u, power, epoch_length) ==
    Min2((u.car_battery_capacity * u.state_of_charge - NewEnergy(power, epoch_length))
             \div u.car_battery_capacity,
         Pct(100))

\* OnPowerOutput without the test of _power_output_received
OnPowerOutput_NoDuplicateTest(u, ep, m) ==
    IF ~(m.station_id = u.station_id /\ m.user_id = u.user_id) \/ ep.number = 0
    THEN [u |-> u, sent |-> <<>>]
    ELSE User_start_epoch(
             [u EXCEPT !.state_of_charge =
                           SocAfterCharge(u, m.power_output, ep.end_time - ep.start_time),
                       !.power_output_received = TRUE],
             ep)

OnPowerOutput(u, ep, m) ==
    IF ~(m.station_id = u.station_id /\ m.user_id = u.user_id) \/ ep.number = 0
          \/ u.power_output_received
    THEN [u |-> u, sent |-> <<>>]
    ELSE User_start_epoch(
             [u EXCEPT !.state_of_charge =
                           SocAfterCharge(u, m.power_output, ep.end_time - ep.start_time),
                       !.power_output_received = TRUE],
             ep)

OnCarDischargePowerRequirement(u, ep, m) ==
    IF ~(m.station_id = u.station_id /\ m.user_id = u.user_id) \/ ep.number = 0
          \/ u.car_discharge_power_requirement_received
    THEN [u |-> u, sent |-> <<>>]
    ELSE User_start_epoch(
             [u EXCEPT !.discharged_power = NewEnergy(m.power, ep.end_time - ep.start_time),
                       !.state_of_charge =
                           SocAfterDischarge(u, m.power, ep.end_time - ep.start_time),
                       !.car_discharge_power_requirement_received = TRUE],
             ep)

User_general_message_handler(u, ep, m) ==
    CASE m.type = "PowerOutput" -> OnPowerOutput(u, ep, m)
      [] m.type = "CarDischargePowerRequirement" -> OnCarDischargePowerRequirement(u, ep, m)
      [] OTHER -> [u |-> u, sent |-> <<>>]

----------------------------------------------------------------------------
(* StationComponent                                                        *)

\* module constant GRID_ID = "1" of station_component.py
STATION_GRID_ID == "1"

StationComponent(station_id, max_power, charging_cost, compensation_amount) ==
    [station_id |-> station_id,
     max_power |-> max_power,
     charging_cost |-> charging_cost,
     compensation_amount |-> compensation_amount,
     station_state |-> FALSE,
     power_requirement_received |-> FALSE,
     power_output |-> 0,
     user_id |-> 0,
     power_discharge_car_to_station_received |-> FALSE,
     discharged_power |-> 0,
     power_discharge_needed |-> 0,
     power_discharge_requirement_received |-> FALSE,
     discharge_epoch_sent |-> FALSE,
     power_output_epoch_sent |-> FALSE,
     grid_load_status_received |-> FALSE,
     grid_load_status |-> FALSE,
     total_charging_cost |-> 0,
     send_total_charging_cost |-> FALSE,
     completed_epoch |-> 0]

\* clear_epoch_variables that also resets _total_charging_cost
Station_clear_epoch_variables_ResetsCost(s) ==
    [s EXCEPT !.station_state = FALSE,
              !.power_requirement_received = FALSE,
              !.power_discharge_car_to_station_received = FALSE,
              !.power_output = 0,
              !.user_id = 0,
              !.discharged_power = 0,
              !.power_discharge_needed = 0,
              !.power_discharge_requirement_received = FALSE,
              !.discharge_epoch_sent = FALSE,
              !.power_output_epoch_sent = FALSE,
              !.grid_load_status_received = FALSE,
              !.grid_load_status = FALSE,
              !.send_total_charging_cost = FALSE,
              !.total_charging_cost = 0]

Station_clear_epoch_variables(s) ==
    [s EXCEPT !.station_state = FALSE,
              !.power_requirement_received = FALSE,
              !.power_discharge_car_to_station_received = FALSE,
              !.power_output = 0,
              !.user_id = 0,
              !.discharged_power = 0,
              !.power_discharge_needed = 0,
              !.power_discharge_requirement_received = FALSE,
              !.discharge_epoch_sent = FALSE,
              !.power_output_epoch_sent = FALSE,
              !.grid_load_status_received = FALSE,
              !.grid_load_status = FALSE,
              !.send_total_charging_cost = FALSE]

StationStateStep(s) ==
    IF ~s.station_state
    THEN [s |-> [s EXCEPT !.station_state = TRUE],
          sent |-> <<StationStateMessage(s.station_id, s.max_power, s.charging_cost,
                                         s.compensation_amount)>>]
    ELSE [s |-> s, sent |-> <<>>]

\* PowerOutputStep without the test of _power_output_epoch_sent
PowerOutputStep_EveryPass(r) ==
    IF r.s.power_requirement_received
    THEN [s |-> [r.s EXCEPT !.power_output_epoch_sent = TRUE],
          sent |-> Append(r.sent, PowerOutputMessage(r.s.station_id, r.s.user_id,
                                                     r.s.power_output))]
    ELSE r

PowerOutputStep(r) ==
    IF r.s.power_requirement_received /\ ~r.s.power_output_epoch_sent
    THEN [s |-> [r.s EXCEPT !.power_output_epoch_sent = TRUE],
          sent |-> Append(r.sent, PowerOutputMessage(r.s.station_id, r.s.user_id,
                                                     r.s.power_output))]
    ELSE r

DischargeRequirementToUserStep(r) ==
    IF r.s.power_discharge_requirement_received /\ ~r.s.discharge_epoch_sent
    THEN [s |-> [r.s EXCEPT !.discharge_epoch_sent = TRUE],
          sent |-> Append(r.sent, CarDischargePowerRequirementMessage(r.s.station_id, r.s.user_id,
                                                                      r.s.power_discharge_needed))]
    ELSE r

\* no "sent" flag guards this message: it goes out on every pass
DischargeStationToGridStep(r) ==
    IF r.s.power_discharge_car_to_station_received
    THEN [s |-> r.s,
          sent |-> Append(r.sent, PowerDischargeStationToGridMessage(r.s.discharged_power,
                                                                     r.s.station_id,
                                                                     STATION_GRID_ID))]
    ELSE r

TotalChargingCostStep(r) ==
    IF r.s.power_output_epoch_sent /\ ~r.s.send_total_charging_cost
    THEN [s |-> [r.s EXCEPT !.total_charging_cost = @ + r.s.power_output * r.s.charging_cost,
                            !.send_total_charging_cost = TRUE],
          sent |-> Append(r.sent,
                          TotalChargingCostMessage(r.s.total_charging_cost
                                                       + r.s.power_output * r.s.charging_cost))]
    ELSE r

\* the return of process_epoch without the tests of _grid_load_status
Station_Return_IgnoreLoadStatus(r) ==
    [s |-> r.s, sent |-> r.sent,
     ret |-> \/ (r.s.power_requirement_received /\ r.s.power_output_epoch_sent)
             \/ r.s.power_discharge_car_to_station_received]

Station_Return(r) ==
    [s |-> r.s, sent |-> r.sent,
     ret |-> \/ (~r.s.grid_load_status /\ r.s.power_requirement_received
                   /\ r.s.power_output_epoch_sent)
             \/ (r.s.grid_load_status /\ r.s.power_discharge_car_to_station_received
                   /\ r.s.power_discharge_car_to_station_received)]

Station_process_epoch(s, ep) ==
    Station_Return(TotalChargingCostStep(DischargeStationToGridStep(
        DischargeRequirementToUserStep(PowerOutputStep(StationStateStep(s))))))

Station_Complete(r, ep) ==
    [s |-> IF r.ret THEN [r.s EXCEPT !.completed_epoch = ep.number] ELSE r.s, sent |-> r.sent]

Station_start_epoch(s, ep) ==
    IF ep.number = 0 \/ s.completed_epoch = ep.number
    THEN [s |-> s, sent |-> <<>>]
    ELSE Station_Complete(Station_process_epoch(s, ep), ep)

Station_general_message_handler(s, ep, m) ==
    CASE m.type = "PowerRequirement" ->
             IF m.station_id = s.station_id
             THEN Station_start_epoch([s EXCEPT !.power_output = m.power,
                                                !.user_id = m.user_id,
                                                !.power_requirement_received = TRUE], ep)
             ELSE [s |-> s, sent |-> <<>>]
      [] m.type = "CarDischargePowerRequirement" ->
             IF m.station_id = s.station_id
             THEN Station_start_epoch([s EXCEPT !.power_discharge_needed = m.power,
                                                !.user_id = m.user_id,
                                                !.power_discharge_requirement_received = TRUE], ep)
             ELSE [s |-> s, sent |-> <<>>]
      [] m.type = "PowerDischargeCarToStation" ->
             IF m.station_id = s.station_id
             THEN Station_start_epoch([s EXCEPT !.user_id = m.user_id,
                                                !.power_discharge_car_to_station_received = TRUE,
                                                !.discharged_power = m.power], ep)
             ELSE [s |-> s, sent |-> <<>>]
      [] m.type = "GridLoadStatus" ->
             Station_start_epoch([s EXCEPT !.grid_load_status_received = TRUE,
                                           !.grid_load_status = m.load_status], ep)
      [] OTHER -> [s |-> s, sent |-> <<>>]

----------------------------------------------------------------------------
(* GridComponent                                                           *)

GridComponent(grid_id, total_max_power_output) ==
    [grid_id |-> grid_id,
     total_max_power_output |-> total_max_power_output,
     power_received |-> 0,
     current_power_capacity |-> total_max_power_output,
     grid_state_sent |-> FALSE,
     power_discharge_station_to_grid_received |-> FALSE,
     completed_epoch |-> 0]

Grid_clear_epoch_variables(g) ==
    [g EXCEPT !.grid_state_sent = FALSE,
              !.power_discharge_station_to_grid_received = FALSE]

ApplyPowerReceived(g) ==
    IF g.power_discharge_station_to_grid_received
    THEN [g EXCEPT !.current_power_capacity =
                       IF g.current_power_capacity + g.power_received >= g.total_max_power_output
                       THEN g.total_max_power_output
                       ELSE g.current_power_capacity + g.power_received]
    ELSE g

\* GridStateStep without the test of _grid_state_sent: one GridState per pass
GridStateStep_EveryPass(g) ==
    [g |-> [g EXCEPT !.grid_state_sent = TRUE],
     sent |-> <<GridStateMessage(g.grid_id, g.total_max_power_output,
                                 g.current_power_capacity)>>,
     ret |-> TRUE]

GridStateStep(g) ==
    IF ~g.grid_state_sent
    THEN [g |-> [g EXCEPT !.grid_state_sent = TRUE],
          sent |-> <<GridStateMessage(g.grid_id, g.total_max_power_output,
                                      g.current_power_capacity)>>,
          ret |-> TRUE]
    ELSE [g |-> g, sent |-> <<>>, ret |-> g.grid_state_sent]

Grid_process_epoch(g, ep) == GridStateStep(ApplyPowerReceived(g))

Grid_Complete(r, ep) ==
    [g |-> IF r.ret THEN [r.g EXCEPT !.completed_epoch = ep.number] ELSE r.g, sent |-> r.sent]

Grid_start_epoch(g, ep) ==
    IF ep.number = 0 \/ g.completed_epoch = ep.number
    THEN [g |-> g, sent |-> <<>>]
    ELSE Grid_Complete(Grid_process_epoch(g, ep), ep)

Grid_general_message_handler(g, ep, m) ==
    CASE m.type = "PowerDischargeStationToGrid" ->
             Grid_start_epoch([g EXCEPT !.power_received = m.power,
                                        !.power_discharge_station_to_grid_received = TRUE], ep)
      [] OTHER -> [g |-> g, sent |-> <<>>]

----------------------------------------------------------------------------
(* Parameter ranges shared by the specifications                           *)

\* station ids are strings in the program
StationNames == <<"S1", "S2", "S3", "S4">>

\* a station id no StationComponent carries
NoStation == "none"

\* battery capacity (kWh) of every modelled car: the 40 kWh car of the single-user
\* scenario
CarBatteryCapacity == 4 * 10

\* Epoch number n covers [EpochStart(n), EpochStart(n) + length]
FirstEpochStart == HourSeconds
EpochLengths == {HourSeconds \div 2, HourSeconds}

NoEpoch == [number |-> 0, start_time |-> 0, end_time |-> 0]

RECURSIVE HandleAll(_, _, _)
HandleAll(c, ep, msgs) ==
    IF msgs = <<>> THEN c
    ELSE HandleAll(V2G_general_message_handler(c, ep, Head(msgs)).c, ep, Tail(msgs))

IdleUsers == <<>>
IdleStations == <<>>
IdleGrid == GridComponent("1", 0)
IdleNet == <<>>
IdleHist == [delivered |-> {}, metadata |-> {}, replays |-> 0, bursts |-> 0]

----------------------------------------------------------------------------
(* SpecAlloc: the allocation of one epoch.  The controller has handled the *)
(* CarMetaData and UserState of every user and the StationState of every   *)
(* reporting station; the GridState that completes the snapshot arrives.   *)

AllocMaxUsers == 2
AllocMaxStations == 3
AllocMaxCapacity == 3

\* available capacity, in steps of 10 kW, from below zero
AllocCapacity == {KW(10 * k) : k \in (-1)..AllocMaxCapacity}

\* [arrival_time, target_time] windows: two that contain every modelled epoch
\* (an earlier and a later deadline) and one that starts inside the epoch
WindowEarly == <<0, FirstEpochStart + HourSeconds>>
WindowLate == <<0, FirstEpochStart + 2 * HourSeconds>>
WindowPartial == <<FirstEpochStart + (HourSeconds \div 4), FirstEpochStart + 2 * HourSeconds>>

\* the cars drawn: state of charge, car_max_power, window
AllocProfiles ==
    {[soc |-> Pct(20), car_max |-> KW(22), window |-> WindowEarly],
     [soc |-> Pct(40), car_max |-> KW(22), window |-> WindowEarly],
     [soc |-> Pct(20), car_max |-> KW(5), window |-> WindowEarly],
     [soc |-> Pct(40), car_max |-> KW(22), window |-> WindowLate],
     [soc |-> Pct(60), car_max |-> KW(22), window |-> WindowEarly],
     [soc |-> Pct(20), car_max |-> KW(22), window |-> WindowPartial]}

AllocStationId(i) == StationNames[i]
\* the stations' max_power: 7 kW for the odd ones, 22 kW for the even ones
AllocStationMaxPower(i) == IF i % 2 = 1 THEN KW(7) ELSE KW(22)

\* the messages of the users 1..n, the stations 1..k (in list order) before the GridState
AllocMessages(n, k, station_of, profile) ==
    [i \in 1..n |-> CarMetaDataMessage(i, station_of[i], profile[i].soc, CarBatteryCapacity,
                                       profile[i].car_max)]
    \o [j \in 1..k |-> StationStateMessage(AllocStationId(j), AllocStationMaxPower(j), 1, 1)]
    \o [i \in 1..n |-> UserStateMessage(i, profile[i].window[2], profile[i].window[1])]

AllocInit ==
    /\ \E n \in 1..AllocMaxUsers, k \in 1..AllocMaxStations, len \in EpochLengths :
         \E station_of \in [1..n -> {AllocStationId(j) : j \in 1..AllocMaxStations}],
            profile \in [1..n -> AllocProfiles] :
           /\ epoch = [number |-> 1, start_time |-> FirstEpochStart,
                       end_time |-> FirstEpochStart + len]
           /\ ctrl = HandleAll(V2GControllerComponent(n, k), epoch,
                               AllocMessages(n, k, station_of, profile))
    /\ ctrl_sent = <<>>
    /\ hist = IdleHist
    /\ usr = IdleUsers
    /\ stn = IdleStations
    /\ grid = IdleGrid
    /\ net = IdleNet
    /\ pc = "alloc"

AllocGridState ==
    /\ pc = "alloc"
    /\ \E capacity \in AllocCapacity :
         LET r == V2G_general_message_handler(ctrl, epoch,
                      GridStateMessage("1", KW(10 * AllocMaxCapacity), capacity))
         IN  /\ ctrl' = r.c
             /\ ctrl_sent' = r.sent
    /\ pc' = "allocated"
    /\ UNCHANGED <<epoch, hist, usr, stn, grid, net>>

AllocNext == AllocGridState

SpecAlloc == AllocInit /\ [][AllocNext]_vars

----------------------------------------------------------------------------
(* SpecZeroLength: the allocation of an epoch whose end_time is its        *)
(* start_time.  As SpecAlloc otherwise: the snapshot but for the GridState *)
(* has been handled, and the GridState arrives.                            *)

\* the length of the epoch, in seconds
ZeroLength == 0

ZeroInit ==
    /\ \E n \in 1..AllocMaxUsers, k \in 1..AllocMaxStations :
         \E station_of \in [1..n -> {AllocStationId(j) : j \in 1..AllocMaxStations}],
            profile \in [1..n -> AllocProfiles] :
           /\ epoch = [number |-> 1, start_time |-> FirstEpochStart,
                       end_time |-> FirstEpochStart + ZeroLength]
           /\ ctrl = HandleAll(V2GControllerComponent(n, k), epoch,
                               AllocMessages(n, k, station_of, profile))
    /\ ctrl_sent = <<>>
    /\ hist = IdleHist
    /\ usr = IdleUsers
    /\ stn = IdleStations
    /\ grid = IdleGrid
    /\ net = IdleNet
    /\ pc = "alloc"

SpecZeroLength == ZeroInit /\ [][AllocNext]_vars

----------------------------------------------------------------------------
(* Spec: the controller over several epochs.  The Simulation Manager sends *)
(* the Epoch messages; the messages the users, the stations and the grid   *)
(* publish reach the controller one at a time, in any order, and a message *)
(* already delivered may be delivered again (at-least-once delivery).      *)
(* hist records what the epoch has seen: the messages delivered in it, the *)
(* users whose CarMetaData was ever delivered, the number of re-deliveries *)
(* so far and the number of PowerRequirement bursts of the epoch.          *)

MaxEpochs == 2
MaxUsers == 2
MaxStations == 2
MaxReplays == 2

\* the grid's total_max_power_output, in kW
GridCapacities == {KW(10), KW(30)}

EpochMessage(n) ==
    [number |-> n,
     start_time |-> FirstEpochStart + (n - 1) * HourSeconds,
     end_time |-> FirstEpochStart + n * HourSeconds]

\* user i sits at station i; user 1 stays for every epoch, the others leave
\* after the first one
SpecUsers(n) ==
    [i \in 1..n |-> UserComponent(i, StationNames[i], Pct(20 * i), KW(22), CarBatteryCapacity,
                                  IF i = 1 THEN FirstEpochStart + MaxEpochs * HourSeconds
                                           ELSE FirstEpochStart + HourSeconds,
                                  0)]

SpecStations(k) == [j \in 1..k |-> StationComponent(StationNames[j], KW(22), 1, 1)]

Init ==
    /\ \E n \in 1..MaxUsers, k \in 1..MaxStations :
         /\ ctrl = V2GControllerComponent(n, k)
         /\ usr = SpecUsers(n)
         /\ stn = SpecStations(k)
    /\ \E capacity \in GridCapacities : grid = GridComponent("1", capacity)
    /\ ctrl_sent = <<>>
    /\ epoch = NoEpoch
    /\ hist = IdleHist
    /\ net = IdleNet
    /\ pc = "run"

\* 1 when the step invoked _send_power_requirement_message, else 0
BurstIn(before, after) ==
    IF ~before.power_requirement_message_sent /\ after.power_requirement_message_sent
    THEN 1 ELSE 0

IsReplay(m) ==
    \/ m \in hist.delivered
    \/ m.type = "CarMetaData" /\ m.user_id \in hist.metadata

\* the controller has handled m: r is what the handler returned
Handled(m, r) ==
    /\ ctrl' = r.c
    /\ ctrl_sent' = r.sent
    /\ hist' = [delivered |-> hist.delivered \cup {m},
                metadata |-> IF m.type = "CarMetaData"
                             THEN hist.metadata \cup {m.user_id}
                             ELSE hist.metadata,
                replays |-> IF IsReplay(m) THEN hist.replays + 1 ELSE hist.replays,
                bursts |-> hist.bursts + BurstIn(ctrl, r.c)]
    /\ UNCHANGED <<epoch, usr, stn, grid, net, pc>>

Deliver(m) ==
    /\ pc = "run"
    /\ epoch.number >= 1
    /\ IsReplay(m) => hist.replays < MaxReplays
    /\ Handled(m, V2G_general_message_handler(ctrl, epoch, m))

\* a user publishes its CarMetaData in epoch 1 only
DeliverCarMetaData ==
    \E i \in 1..Len(usr) :
        /\ i \in hist.metadata \/ epoch.number = 1
        /\ Deliver(CarMetaDataMessage(usr[i].user_id, usr[i].station_id, usr[i].state_of_charge,
                                      usr[i].car_battery_capacity, usr[i].car_max_power))

DeliverUserState ==
    \E i \in 1..Len(usr) :
        Deliver(UserStateMessage(usr[i].user_id, usr[i].target_time, usr[i].arrival_time))

DeliverCarState ==
    \E i \in 1..Len(usr) :
        Deliver(CarStateMessage(usr[i].user_id, usr[i].station_id, usr[i].state_of_charge))

DeliverStationState ==
    \E j \in 1..Len(stn) :
        Deliver(StationStateMessage(stn[j].station_id, stn[j].max_power, stn[j].charging_cost,
                                    stn[j].compensation_amount))

DeliverGridState ==
    \E g \in {grid} :
        Deliver(GridStateMessage(g.grid_id, g.total_max_power_output, g.current_power_capacity))

\* the controller has started the epoch: r is what start_epoch returned
Started(before, r) ==
    /\ ctrl' = r.c
    /\ ctrl_sent' = r.sent
    /\ hist' = [hist EXCEPT !.delivered = {}, !.bursts = BurstIn(before, r.c)]

\* The Simulation Manager publishes the next Epoch once the components are
\* Ready; the controller clears its epoch variables and starts the epoch.
NewEpoch ==
    /\ pc = "run"
    /\ ctrl.completed_epoch = epoch.number
    /\ epoch.number < MaxEpochs
    /\ epoch' = EpochMessage(epoch.number + 1)
    /\ Started(V2G_clear_epoch_variables(ctrl),
               V2G_start_epoch(V2G_clear_epoch_variables(ctrl), epoch'))
    /\ UNCHANGED <<usr, stn, grid, net, pc>>

Next ==
    \/ NewEpoch
    \/ DeliverCarMetaData
    \/ DeliverUserState
    \/ DeliverCarState
    \/ DeliverStationState
    \/ DeliverGridState

Spec == Init /\ [][Next]_vars

----------------------------------------------------------------------------
(* SpecUser: one User agent over several epochs of any modelled length.    *)
(* Its station answers with PowerOutput and CarDischargePowerRequirement   *)
(* messages of any modelled power, in any order; net holds what the user   *)
(* published in its last step.                                             *)

UserMaxEpochs == 3
UserMaxPower == 2

\* the Power values of the messages the user receives, in steps of 11 kW
UserPowers == {KW(11 * k) : k \in 0..UserMaxPower}

\* the state of charge the car starts with
UserInitialSoc == {Pct(0), Pct(10), Pct(50), Pct(100)}

\* [arrival_time, target_time] of the user: at the station for every epoch,
\* arriving a quarter of an hour into the first epoch, or arriving after the
\* last epoch
UserWindows ==
    {<<0, FirstEpochStart + (UserMaxEpochs + 1) * HourSeconds>>,
     <<HourSeconds \div 4, FirstEpochStart + (UserMaxEpochs + 1) * HourSeconds>>,
     <<FirstEpochStart + UserMaxEpochs * HourSeconds,
       FirstEpochStart + (UserMaxEpochs + 1) * HourSeconds>>}

UserInit ==
    /\ \E soc \in UserInitialSoc, window \in UserWindows :
         usr = <<UserComponent(1, StationNames[1], soc, KW(22), CarBatteryCapacity,
                               window[2], window[1])>>
    /\ epoch = NoEpoch
    /\ net = <<>>
    /\ ctrl = V2GControllerComponent(1, 1)
    /\ ctrl_sent = <<>>
    /\ hist = IdleHist
    /\ stn = IdleStations
    /\ grid = IdleGrid
    /\ pc = "user"

\* the user has taken a step: r is what the step returned
UserStepped(r) ==
    /\ usr' = <<r.u>>
    /\ net' = r.sent
    /\ UNCHANGED <<ctrl, ctrl_sent, hist, stn, grid, pc>>

\* the next Epoch message, once the user is Ready for the current one
UserNewEpoch ==
    /\ pc = "user"
    /\ usr[1].completed_epoch = epoch.number
    /\ epoch.number < UserMaxEpochs
    /\ \E len \in EpochLengths :
         epoch' = [number |-> epoch.number + 1,
                   start_time |-> epoch.end_time,
                   end_time |-> epoch.end_time + len]
    /\ UserStepped(User_start_epoch(User_clear_epoch_variables(usr[1]), epoch'))

UserPowerOutput ==
    /\ pc = "user"
    /\ epoch.number >= 1
    /\ \E power \in UserPowers :
         UserStepped(User_general_message_handler(usr[1], epoch,
                         PowerOutputMessage(usr[1].station_id, usr[1].user_id, power)))
    /\ UNCHANGED epoch

UserDischargeRequirement ==
    /\ pc = "user"
    /\ epoch.number >= 1
    /\ \E power \in UserPowers :
         UserStepped(User_general_message_handler(usr[1], epoch,
                         CarDischargePowerRequirementMessage(usr[1].station_id, usr[1].user_id,
                                                             power)))
    /\ UNCHANGED epoch

UserNext ==
    \/ UserNewEpoch
    \/ UserPowerOutput
    \/ UserDischargeRequirement

SpecUser == UserInit /\ [][UserNext]_vars

----------------------------------------------------------------------------
(* SpecSys: the Grid, the Stations, the Users and the Controller together. *)
(* net holds one queue per component: a published message is appended to   *)
(* the queue of each intended recipient, so that it is delivered exactly   *)
(* once, and a component handles its queue in order, one message at a      *)
(* time.  The Simulation Manager publishes the next Epoch when every       *)
(* component is Ready.  User i sits at station i; no GridLoadStatus is     *)
(* published.                                                              *)

SysMaxEpochs == 2
SysMaxUsers == 2

\* [arrival_time, target_time] relative to the epochs: containing all of them,
\* disjoint from all of them, and starting inside the first one
WindowContaining == <<0, FirstEpochStart + (SysMaxEpochs + 1) * HourSeconds>>
WindowDisjoint == <<0, FirstEpochStart>>
WindowOverlapping == <<FirstEpochStart + (HourSeconds \div 2),
                       FirstEpochStart + (SysMaxEpochs + 1) * HourSeconds>>
SysWindows == {WindowContaining, WindowDisjoint, WindowOverlapping}

\* the grid's total_max_power_output: below and above the demand of two cars
SysCapacities == {KW(30), KW(50)}

EpochOf(n) == [type |-> "Epoch", epoch |-> EpochMessage(n)]

SysInit ==
    /\ \E n \in 1..SysMaxUsers :
         /\ \E window \in [1..n -> SysWindows] :
              usr = [i \in 1..n |-> UserComponent(i, StationNames[i], Pct(20), KW(22),
                                                  CarBatteryCapacity, window[i][2], window[i][1])]
         /\ stn = SpecStations(n)
         /\ ctrl = V2GControllerComponent(n, n)
         /\ net = [ctrl |-> <<>>, grid |-> <<>>,
                   stn |-> [j \in 1..n |-> <<>>], usr |-> [i \in 1..n |-> <<>>]]
    /\ \E capacity \in SysCapacities : grid = GridComponent("1", capacity)
    /\ ctrl_sent = <<>>
    /\ epoch = NoEpoch
    /\ hist = IdleHist
    /\ pc = "sys"

\* the components a message is meant for, by the topic it is published to
ToController(m) == m.type \in {"CarMetaData", "UserState", "CarState", "StationState", "GridState"}
ToGrid(m) == m.type = "PowerDischargeStationToGrid"
ToStations(sender, m) ==
    \/ m.type \in {"PowerRequirement", "PowerDischargeCarToStation"}
    \/ m.type = "CarDischargePowerRequirement" /\ sender = "ctrl"
ToUsers(sender, m) ==
    \/ m.type = "PowerOutput"
    \/ m.type = "CarDischargePowerRequirement" /\ sender = "stn"

Enqueue(queue, m, wanted) == IF wanted THEN Append(queue, m) ELSE queue

Route(n, sender, m) ==
    [ctrl |-> Enqueue(n.ctrl, m, ToController(m)),
     grid |-> Enqueue(n.grid, m, ToGrid(m)),
     stn |-> [j \in DOMAIN n.stn |-> Enqueue(n.stn[j], m, ToStations(sender, m))],
     usr |-> [i \in DOMAIN n.usr |-> Enqueue(n.usr[i], m, ToUsers(sender, m))]]

RECURSIVE Publish(_, _, _)
Publish(n, sender, msgs) ==
    IF msgs = <<>> THEN n
    ELSE Publish(Route(n, sender, Head(msgs)), sender, Tail(msgs))

\* every component has completed the current epoch (Status Ready)
AllReady ==
    /\ grid.completed_epoch = epoch.number
    /\ ctrl.completed_epoch = epoch.number
    /\ \A j \in 1..Len(stn) : stn[j].completed_epoch = epoch.number
    /\ \A i \in 1..Len(usr) : usr[i].completed_epoch = epoch.number

\* the Simulation Manager publishes the next Epoch to every component
ManagerEpoch ==
    /\ pc = "sys"
    /\ AllReady
    /\ epoch.number < SysMaxEpochs
    /\ epoch' = EpochMessage(epoch.number + 1)
    /\ net' = [ctrl |-> Append(net.ctrl, EpochOf(epoch.number + 1)),
               grid |-> Append(net.grid, EpochOf(epoch.number + 1)),
               stn |-> [j \in DOMAIN net.stn |-> Append(net.stn[j], EpochOf(epoch.number + 1))],
               usr |-> [i \in DOMAIN net.usr |-> Append(net.usr[i], EpochOf(epoch.number + 1))]]
    /\ UNCHANGED <<ctrl, ctrl_sent, hist, usr, stn, grid, pc>>

\* a new Epoch clears the epoch variables and starts the epoch; any other
\* message goes to general_message_handler
Grid_on_message(g, m) ==
    IF m.type = "Epoch"
    THEN Grid_start_epoch(Grid_clear_epoch_variables(g), m.epoch)
    ELSE Grid_general_message_handler(g, epoch, m)

Station_on_message(s, m) ==
    IF m.type = "Epoch"
    THEN Station_start_epoch(Station_clear_epoch_variables(s), m.epoch)
    ELSE Station_general_message_handler(s, epoch, m)

User_on_message(u, m) ==
    IF m.type = "Epoch"
    THEN User_start_epoch(User_clear_epoch_variables(u), m.epoch)
    ELSE User_general_message_handler(u, epoch, m)

V2G_on_message(c, m) ==
    IF m.type = "Epoch"
    THEN V2G_start_epoch(V2G_clear_epoch_variables(c), m.epoch)
    ELSE V2G_general_message_handler(c, epoch, m)

GridHandled(r) ==
    /\ grid' = r.g
    /\ net' = Publish([net EXCEPT !.grid = Tail(@)], "grid", r.sent)
    /\ UNCHANGED <<ctrl, ctrl_sent, epoch, hist, usr, stn, pc>>

GridHandle ==
    /\ pc = "sys"
    /\ net.grid # <<>>
    /\ GridHandled(Grid_on_message(grid, Head(net.grid)))

StationHandled(j, r) ==
    /\ stn' = [stn EXCEPT ![j] = r.s]
    /\ net' = Publish([net EXCEPT !.stn[j] = Tail(@)], "stn", r.sent)
    /\ UNCHANGED <<ctrl, ctrl_sent, epoch, hist, usr, grid, pc>>

StationHandle ==
    /\ pc = "sys"
    /\ \E j \in 1..Len(stn) :
         /\ net.stn[j] # <<>>
         /\ StationHandled(j, Station_on_message(stn[j], Head(net.stn[j])))

UserHandled(i, r) ==
    /\ usr' = [usr EXCEPT ![i] = r.u]
    /\ net' = Publish([net EXCEPT !.usr[i] = Tail(@)], "usr", r.sent)
    /\ UNCHANGED <<ctrl, ctrl_sent, epoch, hist, stn, grid, pc>>

UserHandle ==
    /\ pc = "sys"
    /\ \E i \in 1..Len(usr) :
         /\ net.usr[i] # <<>>
         /\ UserHandled(i, User_on_message(usr[i], Head(net.usr[i])))

ControllerHandled(r) ==
    /\ ctrl' = r.c
    /\ ctrl_sent' = r.sent
    /\ net' = Publish([net EXCEPT !.ctrl = Tail(@)], "ctrl", r.sent)
    /\ UNCHANGED <<epoch, hist, usr, stn, grid, pc>>

ControllerHandle ==
    /\ pc = "sys"
    /\ net.ctrl # <<>>
    /\ ControllerHandled(V2G_on_message(ctrl, Head(net.ctrl)))

SysNext ==
    \/ ManagerEpoch
    \/ GridHandle
    \/ StationHandle
    \/ UserHandle
    \/ ControllerHandle

\* fair scheduling: a component with a message in its queue eventually handles
\* it, and the Manager eventually publishes the Epoch it is ready to publish
SysFairness ==
    /\ WF_vars(ManagerEpoch)
    /\ WF_vars(GridHandle)
    /\ WF_vars(ControllerHandle)
    /\ \A j \in 1..SysMaxUsers :
         WF_vars(pc = "sys" /\ j <= Len(stn) /\ net.stn[j] # <<>>
                   /\ StationHandled(j, Station_on_message(stn[j], Head(net.stn[j]))))
    /\ \A i \in 1..SysMaxUsers :
         WF_vars(pc = "sys" /\ i <= Len(usr) /\ net.usr[i] # <<>>
                   /\ UserHandled(i, User_on_message(usr[i], Head(net.usr[i]))))

SpecSys == SysInit /\ [][SysNext]_vars /\ SysFairness

----------------------------------------------------------------------------
(* SpecPref: the controller and the preferences file, over several epochs. *)
(* Each user publishes CarMetaData (first epoch), UserState and then a     *)
(* CarState of any modelled state of charge; each station its StationState *)
(* and the grid its GridState; every message is delivered once, the        *)
(* messages of different senders in any order.  The first epoch starts in  *)
(* an hour under load, the second does not.  hist records the messages of  *)
(* the epoch, the users for whom the four conditions of the discharge      *)
(* decision held at their CarState, and what the last message met.         *)

PrefMaxUsers == 2
PrefMaxEpochs == 2

\* the state of charge a CarState reports
PrefSoc == {Pct(50), Pct(60), Pct(80), Pct(90)}

\* the state of charge user 1 starts with
PrefInitialSoc == {Pct(20), Pct(60)}

\* charging_cost and compensation_amount of the stations
PrefPrices == {<<1, 1>>, <<2, 0>>}

\* v2g_user_preferences.csv has a row whose UserID cell reads as this id
HasPreferenceRow(user_id) == StrKey(user_id) \in DOMAIN user_preferences
PreferenceRow(user_id) == user_preferences[StrKey(user_id)]

\* the four conditions of the discharge decision, for a user of the file
DischargeDue(c, ep, user) ==
    /\ HasPreferenceRow(user.user_id)
    /\ _is_grid_under_load(ep)
    /\ HasStation(c.stations, user.station_id)
    /\ PreferenceRow(user.user_id).DischargePriceThreshold
           <= FirstStation(c.stations, user.station_id).compensation_amount

\* the conditions of the willing-to-pay raise when a CarState reports soc
WillingToPay(c, ep, user, soc) ==
    /\ soc = user.target_state_of_charge
    /\ soc < Pct(MAX_STATE_OF_CHARGE)
    /\ ~user.discharge
    /\ ~DischargeDue(c, ep, user)
    /\ HasPreferenceRow(user.user_id)
    /\ HasStation(c.stations, user.station_id)
    /\ PreferenceRow(user.user_id).MaxCostForCharging
           >= FirstStation(c.stations, user.station_id).charging_cost

NothingMet ==
    [type |-> "none", user_id |-> 0, soc |-> 0, target |-> 0, due |-> FALSE, willing |-> FALSE]

PrefIdleHist == [delivered |-> {}, due |-> {}, last |-> NothingMet]

\* what a UserState or CarState of the user meets: the user as the controller
\* holds it before the message is handled
MetBy(type, user, soc) ==
    [type |-> type, user_id |-> user.user_id, soc |-> soc,
     target |-> user.target_state_of_charge,
     due |-> type = "CarState" /\ DischargeDue(ctrl, epoch, user),
     willing |-> type = "CarState" /\ WillingToPay(ctrl, epoch, user, soc)]

PrefInit ==
    /\ \E n \in 1..PrefMaxUsers, soc \in PrefInitialSoc, price \in PrefPrices :
         /\ ctrl = V2GControllerComponent(n, n)
         /\ usr = [i \in 1..n |->
                      UserComponent(i, StationNames[i], IF i = 1 THEN soc ELSE Pct(60), KW(22),
                                    CarBatteryCapacity,
                                    FirstEpochStart + (PrefMaxEpochs + 1) * HourSeconds, 0)]
         /\ stn = [j \in 1..n |-> StationComponent(StationNames[j], KW(22), price[1], price[2])]
    /\ grid = GridComponent("1", KW(30))
    /\ ctrl_sent = <<>>
    /\ epoch = NoEpoch
    /\ hist = PrefIdleHist
    /\ net = IdleNet
    /\ pc = "pref"

\* a message of this type from this user was delivered in the epoch
PrefSeen(type, user_id) ==
    \E m \in hist.delivered : m.type = type /\ m.user_id = user_id

\* the controller has handled m: r is what the handler returned
PrefHandled(m, r, met) ==
    /\ ctrl' = r.c
    /\ ctrl_sent' = r.sent
    /\ hist' = [delivered |-> hist.delivered \cup {m},
                due |-> IF met.due THEN hist.due \cup {met.user_id} ELSE hist.due,
                last |-> met]
    /\ UNCHANGED <<epoch, usr, stn, grid, net, pc>>

PrefDeliver(m, met) ==
    /\ pc = "pref"
    /\ epoch.number >= 1
    /\ m \notin hist.delivered
    /\ PrefHandled(m, V2G_general_message_handler(ctrl, epoch, m), met)

PrefCarMetaData ==
    \E i \in 1..Len(usr) :
        /\ epoch.number = 1
        /\ PrefDeliver(CarMetaDataMessage(usr[i].user_id, usr[i].station_id,
                                          usr[i].state_of_charge, usr[i].car_battery_capacity,
                                          usr[i].car_max_power),
                       NothingMet)

PrefStationState ==
    \E j \in 1..Len(stn) :
        PrefDeliver(StationStateMessage(stn[j].station_id, stn[j].max_power,
                                        stn[j].charging_cost, stn[j].compensation_amount),
                    NothingMet)

PrefUserState ==
    \E k \in 1..Len(ctrl.users) :
        /\ ~PrefSeen("UserState", ctrl.users[k].user_id)
        /\ PrefDeliver(UserStateMessage(ctrl.users[k].user_id,
                                        usr[ctrl.users[k].user_id].target_time,
                                        usr[ctrl.users[k].user_id].arrival_time),
                       MetBy("UserState", ctrl.users[k], ctrl.users[k].state_of_charge))

PrefCarState ==
    \E k \in 1..Len(ctrl.users), soc \in PrefSoc :
        /\ PrefSeen("UserState", ctrl.users[k].user_id)
        /\ ~PrefSeen("CarState", ctrl.users[k].user_id)
        /\ PrefDeliver(CarStateMessage(ctrl.users[k].user_id, ctrl.users[k].station_id, soc),
                       MetBy("CarState", ctrl.users[k], soc))

PrefGridState ==
    \E g \in {grid} :
        PrefDeliver(GridStateMessage(g.grid_id, g.total_max_power_output,
                                     g.total_max_power_output),
                    NothingMet)

PrefStarted(r) ==
    /\ ctrl' = r.c
    /\ ctrl_sent' = r.sent
    /\ hist' = PrefIdleHist

PrefNewEpoch ==
    /\ pc = "pref"
    /\ ctrl.completed_epoch = epoch.number
    /\ epoch.number < PrefMaxEpochs
    /\ epoch' = EpochMessage(epoch.number + 1)
    /\ PrefStarted(V2G_start_epoch(V2G_clear_epoch_variables(ctrl), epoch'))
    /\ UNCHANGED <<usr, stn, grid, net, pc>>

PrefNext ==
    \/ PrefNewEpoch
    \/ PrefCarMetaData
    \/ PrefStationState
    \/ PrefUserState
    \/ PrefCarState
    \/ PrefGridState

SpecPref == PrefInit /\ [][PrefNext]_vars

----------------------------------------------------------------------------
(* SpecDischarge: the CarDischargePowerRequirement burst of one epoch.     *)
(* The controller has handled the CarMetaData and UserState of every user  *)
(* and the StationState of every station; the users' discharge flags are   *)
(* the input of the burst and are drawn freely, as are their windows and    *)
(* the state of charge they reported.  The GridState that completes the    *)
(* snapshot arrives.                                                       *)

DischargeMaxUsers == 3

\* [arrival_time, target_time] windows: one that contains the epoch, one that
\* starts inside it
DischargeWindows == {WindowLate, WindowPartial}

\* the state of charge the users report: below and above the default target
DischargeSoc == {Pct(20), Pct(80)}

DischargeMessagesBefore(n, window, soc) ==
    [i \in 1..n |-> CarMetaDataMessage(i, StationNames[i], soc[i], CarBatteryCapacity, KW(22))]
    \o [j \in 1..n |-> StationStateMessage(StationNames[j], KW(22), 1, 1)]
    \o [i \in 1..n |-> UserStateMessage(i, window[i][2], window[i][1])]

\* the users with their discharge flags as drawn
WithDischargeFlags(c, flag) ==
    [c EXCEPT !.users = [k \in 1..Len(c.users) |->
                            [c.users[k] EXCEPT !.discharge = flag[c.users[k].user_id]]]]

DischargeInit ==
    /\ epoch = EpochMessage(1)
    /\ \E n \in 1..DischargeMaxUsers :
         \E window \in [1..n -> DischargeWindows], flag \in [1..n -> BOOLEAN],
            soc \in [1..n -> DischargeSoc] :
            ctrl = WithDischargeFlags(
                       HandleAll(V2GControllerComponent(n, n), epoch,
                                 DischargeMessagesBefore(n, window, soc)),
                       flag)
    /\ ctrl_sent = <<>>
    /\ hist = IdleHist
    /\ usr = IdleUsers
    /\ stn = IdleStations
    /\ grid = IdleGrid
    /\ net = IdleNet
    /\ pc = "discharge"

DischargeGridState ==
    /\ pc = "discharge"
    /\ \E g \in {GridStateMessage("1", KW(30), KW(30))} :
         /\ ctrl' = V2G_general_message_handler(ctrl, epoch, g).c
         /\ ctrl_sent' = V2G_general_message_handler(ctrl, epoch, g).sent
    /\ pc' = "discharged"
    /\ UNCHANGED <<epoch, hist, usr, stn, grid, net>>

DischargeNext == DischargeGridState

SpecDischarge == DischargeInit /\ [][DischargeNext]_vars

----------------------------------------------------------------------------
(* SpecStation: one Station over several epochs.  The controller, the      *)
(* users and whoever publishes GridLoadStatus send it PowerRequirement,    *)
(* CarDischargePowerRequirement, PowerDischargeCarToStation and            *)
(* GridLoadStatus messages, for itself or for another station, in any      *)
(* order and number.  net holds what the station published in its last     *)
(* step; hist records, for the epoch, the number of messages handled, the  *)
(* numbers of PowerOutput, PowerDischargeStationToGrid and                 *)
(* TotalChargingCost messages published, the (user_id, power) of the       *)
(* PowerRequirement messages and the number of PowerDischargeCarToStation  *)
(* messages received for the station; over the epochs, the cost of the     *)
(* power forwarded; and the last message with whether process_epoch ran.   *)

StationMaxEpochs == 2
StationMaxMessages == 4
StationMaxPower == 2

\* the Power of the PowerRequirement messages, in steps of 11 kW
StationPowers == {KW(11 * k) : k \in 0..StationMaxPower}

\* the energy of the PowerDischargeCarToStation messages
StationEnergies == {KW(3), KW(5)}

\* the station ids the messages carry: the station's own and another one
StationAddressees == {StationNames[1], StationNames[2]}

NoMessage == [type |-> "none"]

StationIdleHist ==
    [handled |-> 0, outputs |-> 0, to_grid |-> 0, costs |-> 0, required |-> {},
     discharged |-> 0, expected_cost |-> 0, last |-> NoMessage, ran |-> FALSE]

StationInit ==
    /\ \E cost \in {1, 2} : stn = <<StationComponent(StationNames[1], KW(22), cost, 1)>>
    /\ epoch = NoEpoch
    /\ net = <<>>
    /\ hist = StationIdleHist
    /\ ctrl = V2GControllerComponent(1, 1)
    /\ ctrl_sent = <<>>
    /\ usr = IdleUsers
    /\ grid = IdleGrid
    /\ pc = "station"

CountOf(sent, type) == Len(SelectSeq(sent, LAMBDA m : m.type = type))

\* power * charging_cost of the PowerOutput messages among sent
ForwardedCost(sent, charging_cost) ==
    SumSeq([i \in 1..Len(sent) |->
               IF sent[i].type = "PowerOutput" THEN sent[i].power_output * charging_cost ELSE 0])

ForStation(s, m) == m.type = "GridLoadStatus" \/ m.station_id = s.station_id

\* what the epoch has seen once the station has handled m and published sent
StationSeen(h, s, m, sent, ran) ==
    [handled |-> h.handled + 1,
     outputs |-> h.outputs + CountOf(sent, "PowerOutput"),
     to_grid |-> h.to_grid + CountOf(sent, "PowerDischargeStationToGrid"),
     costs |-> h.costs + CountOf(sent, "TotalChargingCost"),
     required |-> IF m.type = "PowerRequirement" /\ ForStation(s, m)
                  THEN h.required \cup {<<m.user_id, m.power>>}
                  ELSE h.required,
     discharged |-> IF m.type = "PowerDischargeCarToStation" /\ ForStation(s, m)
                    THEN h.discharged + 1
                    ELSE h.discharged,
     expected_cost |-> h.expected_cost + ForwardedCost(sent, s.charging_cost),
     last |-> m,
     ran |-> ran]

\* the station has handled m: r is what the handler returned
StationHandledMessage(m, r) ==
    /\ stn' = <<r.s>>
    /\ net' = r.sent
    /\ hist' = StationSeen(hist, stn[1], m, r.sent,
                           ForStation(stn[1], m) /\ stn[1].completed_epoch # epoch.number)
    /\ UNCHANGED <<ctrl, ctrl_sent, usr, grid, epoch, pc>>

\* the station may receive a message: an epoch runs and the epoch's budget lasts
StationListening == epoch.number >= 1 /\ hist.handled < StationMaxMessages

StationPowerRequirement ==
    /\ pc = "station"
    /\ StationListening
    /\ \E station_id \in StationAddressees, user_id \in 0..1, power \in StationPowers :
         StationHandledMessage(PowerRequirementMessage(station_id, user_id, power),
                               Station_general_message_handler(stn[1], epoch,
                                   PowerRequirementMessage(station_id, user_id, power)))

StationDischargeRequirement ==
    /\ pc = "station"
    /\ StationListening
    /\ \E station_id \in StationAddressees :
         StationHandledMessage(CarDischargePowerRequirementMessage(station_id, 1, KW(5)),
                               Station_general_message_handler(stn[1], epoch,
                                   CarDischargePowerRequirementMessage(station_id, 1, KW(5))))

StationDischargeCarToStation ==
    /\ pc = "station"
    /\ StationListening
    /\ \E station_id \in StationAddressees, energy \in StationEnergies :
         StationHandledMessage(PowerDischargeCarToStationMessage(1, station_id, energy),
                               Station_general_message_handler(stn[1], epoch,
                                   PowerDischargeCarToStationMessage(1, station_id, energy)))

StationGridLoadStatus ==
    /\ pc = "station"
    /\ StationListening
    /\ \E load_status \in BOOLEAN :
         StationHandledMessage(GridLoadStatusMessage(load_status),
                               Station_general_message_handler(stn[1], epoch,
                                   GridLoadStatusMessage(load_status)))

\* the station has started the epoch: r is what start_epoch returned
StationStarted(r) ==
    /\ stn' = <<r.s>>
    /\ net' = r.sent
    /\ hist' = [StationIdleHist EXCEPT !.expected_cost = hist.expected_cost, !.ran = TRUE]

\* the next Epoch message, once the station is Ready for the current one
StationNewEpoch ==
    /\ pc = "station"
    /\ stn[1].completed_epoch = epoch.number
    /\ epoch.number < StationMaxEpochs
    /\ epoch' = EpochMessage(epoch.number + 1)
    /\ StationStarted(Station_start_epoch(Station_clear_epoch_variables(stn[1]), epoch'))
    /\ UNCHANGED <<ctrl, ctrl_sent, usr, grid, pc>>

StationNext ==
    \/ StationNewEpoch
    \/ StationPowerRequirement
    \/ StationDischargeRequirement
    \/ StationDischargeCarToStation
    \/ StationGridLoadStatus

SpecStation == StationInit /\ [][StationNext]_vars

----------------------------------------------------------------------------
(* SpecGrid: the Grid over several epochs.  Stations report reverse flow   *)
(* with PowerDischargeStationToGrid messages at any time of an epoch; the  *)
(* Power of a report is a float the message class does not restrict.  net  *)
(* holds what the grid published in its last step; hist keeps the number   *)
(* of reports of the epoch and the capacity the reports received so far    *)
(* add up to, each one counted once and capped at total_max_power_output.  *)

GridMaxEpochs == 3
GridMaxReports == 2

\* the total_max_power_output the grid is constructed with
GridTotals == {KW(50), KW(100)}

\* the Power of the reports
GridReports == {KW(-5), KW(5), KW(10)}

GridInit ==
    /\ \E total \in GridTotals :
         /\ grid = GridComponent("1", total)
         /\ hist = [reports |-> 0, expected |-> total]
    /\ epoch = NoEpoch
    /\ net = <<>>
    /\ ctrl = V2GControllerComponent(1, 1)
    /\ ctrl_sent = <<>>
    /\ usr = IdleUsers
    /\ stn = IdleStations
    /\ pc = "grid"

\* the grid has run a handler: r is what it returned
GridStepped(r) ==
    /\ grid' = r.g
    /\ net' = r.sent
    /\ UNCHANGED <<ctrl, ctrl_sent, usr, stn, pc>>

\* the next Epoch message: the grid is Ready for the current one as soon as
\* it has handled its Epoch message
GridNewEpoch ==
    /\ pc = "grid"
    /\ grid.completed_epoch = epoch.number
    /\ epoch.number < GridMaxEpochs
    /\ epoch' = EpochMessage(epoch.number + 1)
    /\ hist' = [hist EXCEPT !.reports = 0]
    /\ GridStepped(Grid_start_epoch(Grid_clear_epoch_variables(grid), epoch'))

\* a PowerDischargeStationToGrid message of a station, in an epoch
GridDischargeReport ==
    /\ pc = "grid"
    /\ epoch.number >= 1
    /\ hist.reports < GridMaxReports
    /\ \E power \in GridReports :
         /\ hist' = [reports |-> hist.reports + 1,
                     expected |-> Min2(grid.total_max_power_output, hist.expected + power)]
         /\ GridStepped(Grid_general_message_handler(grid, epoch,
                            PowerDischargeStationToGridMessage(power, StationNames[1], "1")))
    /\ UNCHANGED epoch

GridNext ==
    \/ GridNewEpoch
    \/ GridDischargeReport

SpecGrid == GridInit /\ [][GridNext]_vars

----------------------------------------------------------------------------
(* SpecUserBus: one User agent on the bus over several epochs.  It hears   *)
(* the PowerOutput and CarDischargePowerRequirement messages of every      *)
(* station, for itself and for other (station_id, user_id) pairs, any      *)
(* number of times.  net holds what the user published in its last step;   *)
(* hist counts, over the simulation, the CarMetaData messages published,   *)
(* and for the epoch the messages handled, the UserState and               *)
(* PowerDischargeCarToStation messages published, the PowerOutput and      *)
(* CarDischargePowerRequirement messages received for the user's own pair  *)
(* and for other pairs, and the times each kind changed state_of_charge.   *)
(* ctrl is a controller that handles what the user publishes on the topics *)
(* the controller listens to.                                              *)

UserBusMaxEpochs == 2
UserBusMaxMessages == 3

\* topic the user publishes each of its messages on, with the default topic
\* names: _send_power_discharge_car_to_station_message passes
\* self._car_metadata_topic
User_topic_name(m) ==
    CASE m.type = "UserState" -> "User.UserState"
      [] m.type = "CarState" -> "User.CarState"
      [] m.type = "CarMetaData" -> "Init.User.CarMetadata"
      [] m.type = "PowerDischargeCarToStation" -> "Init.User.CarMetadata"

\* self._other_topics of the station: the topics it listens to
Station_other_topics ==
    {"V2GController.PowerRequirementTopic", "PowerDischargeCarToStation",
     "V2GController.CarDischargePowerRequirementTopic", "V2GController.GridLoadStatus"}

\* the (station_id, user_id) pairs of the messages: the user's own and two others
UserBusAddressees == {<<StationNames[1], 1>>, <<StationNames[2], 1>>, <<StationNames[1], 2>>}

\* the user is at the station for every epoch, or arrives after the last one
UserBusWindows ==
    {<<0, FirstEpochStart + (UserBusMaxEpochs + 1) * HourSeconds>>,
     <<FirstEpochStart + UserBusMaxEpochs * HourSeconds,
       FirstEpochStart + (UserBusMaxEpochs + 1) * HourSeconds>>}

UserBusIdleHist ==
    [metadata |-> 0, handled |-> 0, user_states |-> 0, discharges |-> 0,
     power_outputs |-> 0, directives |-> 0, foreign |-> 0, charged |-> 0,
     discharged |-> 0, last |-> NoMessage]

UserBusInit ==
    /\ \E soc \in {Pct(50), Pct(100)}, window \in UserBusWindows :
         usr = <<UserComponent(1, StationNames[1], soc, KW(22), CarBatteryCapacity,
                               window[2], window[1])>>
    /\ epoch = NoEpoch
    /\ net = <<>>
    /\ hist = UserBusIdleHist
    /\ ctrl = V2GControllerComponent(1, 1)
    /\ ctrl_sent = <<>>
    /\ stn = IdleStations
    /\ grid = IdleGrid
    /\ pc = "userbus"

ForUser(u, m) == m.station_id = u.station_id /\ m.user_id = u.user_id

\* what the controller receives of the messages the user published: those on a
\* topic the controller listens to
ToController_UserBus(sent) ==
    SelectSeq(sent, LAMBDA m : User_topic_name(m) \in {"Init.User.CarMetadata", "User.UserState",
                                                       "User.CarState", "StationStateTopic",
                                                       "GridState"})

\* what the epoch has seen once the user, in state u, has handled m, reached
\* state_of_charge soc and published sent
UserBusSeen(h, u, m, soc, sent) ==
    [metadata |-> h.metadata + CountOf(sent, "CarMetaData"),
     handled |-> h.handled + 1,
     user_states |-> h.user_states + CountOf(sent, "UserState"),
     discharges |-> h.discharges + CountOf(sent, "PowerDischargeCarToStation"),
     power_outputs |-> IF m.type = "PowerOutput" /\ ForUser(u, m)
                       THEN h.power_outputs + 1 ELSE h.power_outputs,
     directives |-> IF m.type = "CarDischargePowerRequirement" /\ ForUser(u, m)
                    THEN h.directives + 1 ELSE h.directives,
     foreign |-> IF ForUser(u, m) THEN h.foreign ELSE h.foreign + 1,
     charged |-> IF m.type = "PowerOutput" /\ soc # u.state_of_charge
                 THEN h.charged + 1 ELSE h.charged,
     discharged |-> IF m.type = "CarDischargePowerRequirement" /\ soc # u.state_of_charge
                    THEN h.discharged + 1 ELSE h.discharged,
     last |-> m]

\* the user has handled m: r is what the handler returned
UserBusHandled(m, r) ==
    /\ usr' = <<r.u>>
    /\ net' = r.sent
    /\ hist' = UserBusSeen(hist, usr[1], m, r.u.state_of_charge, r.sent)
    /\ ctrl' = HandleAll(ctrl, epoch, ToController_UserBus(r.sent))
    /\ UNCHANGED <<ctrl_sent, stn, grid, epoch, pc>>

UserBusListening == epoch.number >= 1 /\ hist.handled < UserBusMaxMessages

UserBusPowerOutput ==
    /\ pc = "userbus"
    /\ UserBusListening
    /\ \E to \in UserBusAddressees, power \in UserPowers :
         UserBusHandled(PowerOutputMessage(to[1], to[2], power),
                        User_general_message_handler(usr[1], epoch,
                            PowerOutputMessage(to[1], to[2], power)))

UserBusDischargeRequirement ==
    /\ pc = "userbus"
    /\ UserBusListening
    /\ \E to \in UserBusAddressees, power \in UserPowers :
         UserBusHandled(CarDischargePowerRequirementMessage(to[1], to[2], power),
                        User_general_message_handler(usr[1], epoch,
                            CarDischargePowerRequirementMessage(to[1], to[2], power)))

\* the user has started the epoch: r is what start_epoch returned
UserBusStarted(r) ==
    /\ usr' = <<r.u>>
    /\ net' = r.sent
    /\ hist' = [UserBusIdleHist EXCEPT
                   !.metadata = hist.metadata + CountOf(r.sent, "CarMetaData"),
                   !.user_states = CountOf(r.sent, "UserState")]
    /\ ctrl' = HandleAll(V2G_clear_epoch_variables(ctrl), epoch', ToController_UserBus(r.sent))

\* the next Epoch message, once the user is Ready for the current one
UserBusNewEpoch ==
    /\ pc = "userbus"
    /\ usr[1].completed_epoch = epoch.number
    /\ epoch.number < UserBusMaxEpochs
    /\ epoch' = EpochMessage(epoch.number + 1)
    /\ UserBusStarted(User_start_epoch(User_clear_epoch_variables(usr[1]), epoch'))
    /\ UNCHANGED <<ctrl_sent, stn, grid, pc>>

UserBusNext ==
    \/ UserBusNewEpoch
    \/ UserBusPowerOutput
    \/ UserBusDischargeRequirement

SpecUserBus == UserBusInit /\ [][UserBusNext]_vars

----------------------------------------------------------------------------
(* Topics.  A component receives a message when the topic it is published  *)
(* on is one of the topics the component listens to (self._other_topics);  *)
(* the names are the defaults of load_environmental_variables.             *)

\* the controller publishes both kinds of directive on self._power_requirement_topic
V2G_topic_name(m) ==
    CASE m.type = "PowerRequirement" -> "PowerRequirementTopic"
      [] m.type = "CarDischargePowerRequirement" -> "PowerRequirementTopic"

\* topic the station publishes each of its messages on:
\* _send_power_discharge_requirement_to_user passes self._power_requirement_topic
Station_topic_name(m) ==
    CASE m.type = "StationState" -> "StationStateTopic"
      [] m.type = "PowerOutput" -> "PowerOutputTopic"
      [] m.type = "CarDischargePowerRequirement" -> "Station.PowerRequirementTopic"
      [] m.type = "PowerDischargeStationToGrid" -> "PowerDischargeStationToGrid"
      [] m.type = "TotalChargingCost" -> "Station.TotalChargingCost"

\* self._other_topics of the user
User_other_topics ==
    {"PowerOutputTopic", "CarDischargePowerRequirementsTopic", "Requirements.Warning"}

\* self._other_topics of the controller
V2G_other_topics ==
    {"Init.User.CarMetadata", "User.UserState", "User.CarState", "StationStateTopic", "GridState"}

----------------------------------------------------------------------------
(* SpecReentrant: the controller's handlers as coroutines.  A handler runs *)
(* until it awaits a publish of the PowerRequirement burst; while it is    *)
(* suspended there the event loop may start the handler of another inbound *)
(* message (a re-delivered GridState, the CarState of a user) or resume    *)
(* any suspended handler.  The snapshot but for the GridState has been     *)
(* handled.  hist.frames holds the suspended invocations of                *)
(* _send_power_requirement_message: the PowerInfos still to do (the local  *)
(* list power_requirements) and the message being published; hist.bursts   *)
(* counts the invocations, hist.handlers the handlers started, hist.cars    *)
(* the users whose CarState was handled.  ctrl_sent holds what has been     *)
(* published in the epoch.                                                 *)

ReentrantMaxUsers == 2
ReentrantMaxHandlers == 3

\* the cars drawn: state of charge, car_max_power, window
ReentrantProfiles ==
    {[soc |-> Pct(20), car_max |-> KW(22), window |-> WindowEarly],
     [soc |-> Pct(40), car_max |-> KW(5), window |-> WindowLate],
     [soc |-> Pct(60), car_max |-> KW(22), window |-> WindowEarly]}

\* the grid's current_power, in kW
ReentrantCapacities == {KW(10), KW(30), KW(50)}

ReentrantInit ==
    /\ \E n \in 1..ReentrantMaxUsers :
         \E profile \in [1..n -> ReentrantProfiles] :
           ctrl = HandleAll(V2GControllerComponent(n, n), EpochMessage(1),
                            AllocMessages(n, n, [i \in 1..n |-> AllocStationId(i)], profile))
    /\ \E capacity \in ReentrantCapacities : grid = GridComponent("1", capacity)
    /\ epoch = EpochMessage(1)
    /\ ctrl_sent = <<>>
    /\ hist = [frames |-> <<>>, bursts |-> 0, handlers |-> 0, cars |-> {}]
    /\ usr = IdleUsers
    /\ stn = IdleStations
    /\ net = IdleNet
    /\ pc = "reentrant"

\* general_message_handler (GridStateMessage), up to the call of start_epoch
GridStateReceived(c, m) ==
    [c EXCEPT !.grid_state_received = TRUE,
              !.total_max_power = IF c.total_max_power_output_received THEN @ ELSE m.max_power,
              !.total_max_power_output_received = TRUE,
              !.current_available_power = m.current_power]

\* general_message_handler (CarStateMessage), up to the call of start_epoch
CarStateReceived(c, ep, m) ==
    [c EXCEPT !.users[UserIndex(c.users, m.user_id)] = CarStateUpdate(c, ep, @, m),
              !.epoch_car_state_count = @ + 1]

\* process_epoch from the return of _send_power_requirement_message to its own
\* return: no publish is awaited when no user is flagged for discharge
AfterBurst(c, ep) ==
    V2G_Complete(CarStateStep(DischargeStep(
        [c |-> [c EXCEPT !.power_requirement_message_sent = TRUE], sent |-> <<>>,
         raised |-> FALSE], ep)), ep)

\* one turn of the loop over power_requirements, up to the await of the publish
BurstTurn(c, todo, ep) ==
    [c |-> [c EXCEPT !.used_total_power =
                         @ + SlotPower(Head(todo), c.current_available_power,
                                       c.used_total_power, ep.end_time - ep.start_time)],
     frames |-> <<[todo |-> Tail(todo),
                   msg |-> PowerRequirementMessage(
                               Head(todo).station_id, Head(todo).user_id,
                               SlotPower(Head(todo), c.current_available_power,
                                         c.used_total_power, ep.end_time - ep.start_time))]>>,
     sent |-> <<>>,
     bursts |-> 1]

\* the loop continues with todo, or the burst returns and process_epoch goes on
BurstFrom(c, todo, ep) ==
    IF todo = <<>>
    THEN [c |-> AfterBurst(c, ep).c, frames |-> <<>>, sent |-> AfterBurst(c, ep).sent,
          bursts |-> 1]
    ELSE BurstTurn(c, todo, ep)

\* process_epoch after the three "all received" tests, up to its first await
EnterBurst(c, ep) ==
    IF ~c.power_requirement_message_sent /\ SnapshotComplete(c)
    THEN BurstFrom(c, _calculate_power_requirements(c.stations,
                                                    SortedByKey(SelectConnected(c.users, ep))),
                   ep)
    ELSE [c |-> V2G_Complete(CarStateStep(DischargeStep(
                    [c |-> c, sent |-> <<>>, raised |-> FALSE], ep)), ep).c,
          frames |-> <<>>,
          sent |-> V2G_Complete(CarStateStep(DischargeStep(
                       [c |-> c, sent |-> <<>>, raised |-> FALSE], ep)), ep).sent,
          bursts |-> 0]

\* start_epoch, up to the first await of process_epoch
EnterStartEpoch(c, ep) ==
    IF ep.number = 0 \/ c.completed_epoch = ep.number
    THEN [c |-> c, frames |-> <<>>, sent |-> <<>>, bursts |-> 0]
    ELSE EnterBurst(UpdateReceivedFlags(c), ep)

\* a handler has run up to its first await: r is where it stands
ReentrantEntered(r, cars) ==
    /\ ctrl' = r.c
    /\ ctrl_sent' = ctrl_sent \o r.sent
    /\ hist' = [frames |-> hist.frames \o r.frames,
                bursts |-> hist.bursts + r.bursts,
                handlers |-> hist.handlers + 1,
                cars |-> cars]
    /\ UNCHANGED <<epoch, usr, stn, grid, net, pc>>

\* the GridState of the epoch is delivered (again)
ReentrantGridState ==
    /\ pc = "reentrant"
    /\ hist.handlers < ReentrantMaxHandlers
    /\ ReentrantEntered(
           EnterStartEpoch(GridStateReceived(ctrl,
               GridStateMessage(grid.grid_id, grid.total_max_power_output,
                                grid.current_power_capacity)), epoch),
           hist.cars)

\* the CarState of a user is delivered
ReentrantCarState ==
    /\ pc = "reentrant"
    /\ hist.handlers < ReentrantMaxHandlers
    /\ \E i \in 1..Len(ctrl.users) :
         /\ i \notin hist.cars
         /\ ReentrantEntered(
                EnterStartEpoch(CarStateReceived(ctrl, epoch,
                    CarStateMessage(ctrl.users[i].user_id, ctrl.users[i].station_id,
                                    ctrl.users[i].state_of_charge)), epoch),
                hist.cars \cup {i})

\* without frame k
WithoutFrame(frames, k) == SubSeq(frames, 1, k - 1) \o SubSeq(frames, k + 1, Len(frames))

\* the publish awaited by suspended invocation k has completed: r is where the
\* invocation stands at its next await, or at its end
ReentrantResumed(k, r) ==
    /\ ctrl' = r.c
    /\ ctrl_sent' = Append(ctrl_sent, hist.frames[k].msg) \o r.sent
    /\ hist' = [hist EXCEPT !.frames = WithoutFrame(@, k) \o r.frames]
    /\ UNCHANGED <<epoch, usr, stn, grid, net, pc>>

ReentrantResume ==
    /\ pc = "reentrant"
    /\ \E k \in 1..Len(hist.frames) :
         ReentrantResumed(k, BurstFrom(ctrl, hist.frames[k].todo, epoch))

ReentrantNext ==
    \/ ReentrantGridState
    \/ ReentrantCarState
    \/ ReentrantResume

SpecReentrant == ReentrantInit /\ [][ReentrantNext]_vars

----------------------------------------------------------------------------
(* Observations used by the properties                                     *)

PowerRequirementsSent == SelectSeq(ctrl_sent, LAMBDA m : m.type = "PowerRequirement")
DischargeRequirementsSent ==
    SelectSeq(ctrl_sent, LAMBDA m : m.type = "CarDischargePowerRequirement")

\* the sum of the Power values of the first n PowerRequirement messages
UsedBefore(n) == SumSeq(SelectPowers(SubSeq(PowerRequirementsSent, 1, n)))

TotalAllocated == UsedBefore(Len(PowerRequirementsSent))

\* the controller's record of a user id it knows
UserOf(user_id) == ctrl.users[UserIndex(ctrl.users, user_id)]

\* [epoch.start, epoch.end] within [arrival_time, target_time], bounds included
WindowContainsEpoch(u) == u.arrival_time <= epoch.start_time /\ epoch.end_time <= u.target_time

\* the users a burst has a slot for: connected, and their station reported
SlotUserIds ==
    {ctrl.users[i].user_id : i \in {k \in 1..Len(ctrl.users) :
        /\ WindowContainsEpoch(ctrl.users[k])
        /\ ctrl.users[k].station_id \in StationIds(ctrl.stations)}}

----------------------------------------------------------------------------
(* Properties of the allocation (SpecAlloc)                                *)

\* C1: the Power values of the PowerRequirement messages of an epoch's burst sum
\* to at most the current_power the controller holds (capacities are >= 0).
C1_AllocationWithinCapacity ==
    (pc = "allocated" /\ ctrl.current_available_power >= 0) =>
        TotalAllocated <= ctrl.current_available_power

\* C1 witness: a burst in which two users were given power and the capacity is
\* used up, the second user getting less than its own limits would allow.
C1_Witness ==
    /\ pc = "allocated"
    /\ TotalAllocated = ctrl.current_available_power
    /\ \E i, j \in 1..Len(PowerRequirementsSent) :
         /\ i < j
         /\ PowerRequirementsSent[i].power > 0
         /\ PowerRequirementsSent[j].power > 0
         /\ PowerRequirementsSent[j].power < UserOf(PowerRequirementsSent[j].user_id).car_max_power
         /\ PowerRequirementsSent[j].power
                < FirstStation(ctrl.stations, PowerRequirementsSent[j].station_id).max_power

\* C2 (as claimed): the burst holds exactly one PowerRequirement per station that
\* reported StationState, total_stations messages in all, whatever the assignment
\* of users to stations.
C2_OnePowerRequirementPerStation ==
    pc = "allocated" =>
        /\ Len(PowerRequirementsSent) = ctrl.total_station_count
        /\ \A sid \in StationIds(ctrl.stations) :
             Cardinality({i \in 1..Len(PowerRequirementsSent) :
                             PowerRequirementsSent[i].station_id = sid}) = 1

\* C9: the burst is ordered: the messages of connected users by target_time
\* ascending and, at equal target_time, required_energy descending; the vacant
\* slots (user_id = 0) after them; and each message that carries power takes it
\* from what the messages before it left of the capacity.
C9_BurstOrder ==
    pc = "allocated" =>
        /\ \A i, j \in 1..Len(PowerRequirementsSent) :
             i < j =>
                LET a == PowerRequirementsSent[i]
                    b == PowerRequirementsSent[j]
                IN  /\ a.user_id = 0 => b.user_id = 0
                    /\ (a.user_id # 0 /\ b.user_id # 0) =>
                          \/ UserOf(a.user_id).target_time < UserOf(b.user_id).target_time
                          \/ /\ UserOf(a.user_id).target_time = UserOf(b.user_id).target_time
                             /\ UserOf(a.user_id).required_energy
                                    >= UserOf(b.user_id).required_energy
        /\ \A j \in 1..Len(PowerRequirementsSent) :
             PowerRequirementsSent[j].power # 0 =>
                PowerRequirementsSent[j].power
                    <= ctrl.current_available_power - UsedBefore(j - 1)
        /\ ctrl.used_total_power = TotalAllocated

\* C9 witness: two connected users with the same target_time, the one later in
\* the controller's list with the larger demand and sent first, followed by a
\* vacant slot.
C9_Witness ==
    /\ pc = "allocated"
    /\ Len(PowerRequirementsSent) >= 3
    /\ PowerRequirementsSent[1].user_id = 2
    /\ PowerRequirementsSent[2].user_id = 1
    /\ UserOf(1).target_time = UserOf(2).target_time
    /\ UserOf(2).required_energy > UserOf(1).required_energy
    /\ PowerRequirementsSent[1].power > 0
    /\ PowerRequirementsSent[3].user_id = 0

\* C10: every slot of a connected user carries the reference amount: with used
\* the sum of the powers sent before it and C the available capacity, the least of
\* station.max_power, car.max_power, C - used and required_energy / (epoch_seconds
\* / 3600) if target_soc > soc and used < C, and 0 otherwise; vacant slots carry 0;
\* the slots are those of the connected users whose station reported.
C10_MatchesReference ==
    pc = "allocated" =>
        /\ \A i \in 1..Len(PowerRequirementsSent) :
             LET m == PowerRequirementsSent[i]
                 used == UsedBefore(i - 1)
             IN  IF m.user_id = 0 THEN m.power = 0
                 ELSE LET u == UserOf(m.user_id)
                          limits == {FirstStation(ctrl.stations, m.station_id).max_power,
                                     u.car_max_power,
                                     ctrl.current_available_power - used,
                                     (u.required_energy * HourSeconds)
                                         \div (epoch.end_time - epoch.start_time)}
                      IN  /\ m.station_id = u.station_id
                          /\ IF u.target_state_of_charge > u.state_of_charge
                                  /\ used < ctrl.current_available_power
                             THEN m.power \in limits /\ \A l \in limits : m.power <= l
                             ELSE m.power = 0
        /\ {PowerRequirementsSent[i].user_id : i \in 1..Len(PowerRequirementsSent)} \ {0}
               = SlotUserIds
        /\ Cardinality({i \in 1..Len(PowerRequirementsSent) :
                           PowerRequirementsSent[i].user_id # 0}) = Cardinality(SlotUserIds)
        /\ ctrl.used_total_power = TotalAllocated

\* C10 witness: one burst in which a user is held to its car's limit, a later one
\* to its energy demand, both with capacity to spare.
C10_Witness ==
    /\ pc = "allocated"
    /\ \E i, j \in 1..Len(PowerRequirementsSent) :
         /\ i < j
         /\ PowerRequirementsSent[i].user_id # 0
         /\ PowerRequirementsSent[j].user_id # 0
         /\ PowerRequirementsSent[i].power = UserOf(PowerRequirementsSent[i].user_id).car_max_power
         /\ PowerRequirementsSent[i].power
                < FirstStation(ctrl.stations, PowerRequirementsSent[i].station_id).max_power
         /\ PowerRequirementsSent[j].power > 0
         /\ PowerRequirementsSent[j].power
                = (UserOf(PowerRequirementsSent[j].user_id).required_energy * HourSeconds)
                      \div (epoch.end_time - epoch.start_time)
         /\ PowerRequirementsSent[j].power
                < UserOf(PowerRequirementsSent[j].user_id).car_max_power
    /\ TotalAllocated < ctrl.current_available_power

\* the users the controller knows whose window does not contain the epoch
UsersOutsideWindow ==
    {k \in 1..Len(ctrl.users) : ~WindowContainsEpoch(ctrl.users[k])}

\* a user whose window contains the epoch carries this station id
StationOccupied(sid) ==
    \E k \in 1..Len(ctrl.users) :
        WindowContainsEpoch(ctrl.users[k]) /\ ctrl.users[k].station_id = sid

\* no PowerRequirement carries the user_id of a user whose window does not
\* contain [epoch.start, epoch.end], bounds included
NoSlotOutsideWindow ==
    \A i \in 1..Len(PowerRequirementsSent) :
        PowerRequirementsSent[i].user_id # 0 =>
            /\ PowerRequirementsSent[i].user_id \in UserIds(ctrl.users)
            /\ WindowContainsEpoch(UserOf(PowerRequirementsSent[i].user_id))

\* C11 (amended): no PowerRequirement, with power or without, carries the
\* user_id of a user whose window does not contain the epoch; the station of
\* such a user, if it reported and no connected user occupies it, receives the
\* zero-power vacant-slot directive.
C11_NoPowerOutsideWindow ==
    pc = "allocated" =>
        /\ NoSlotOutsideWindow
        /\ \A k \in UsersOutsideWindow :
             (/\ ctrl.users[k].station_id \in StationIds(ctrl.stations)
              /\ ~StationOccupied(ctrl.users[k].station_id)) =>
                 \E i \in 1..Len(PowerRequirementsSent) :
                     /\ PowerRequirementsSent[i].station_id = ctrl.users[k].station_id
                     /\ PowerRequirementsSent[i].user_id = 0
                     /\ PowerRequirementsSent[i].power = 0

\* C11 witness: a user whose window starts inside the epoch sits at a station of
\* its own, which gets the vacant-slot directive, while a user whose target_time
\* is the very end of the epoch is given power.
C11_Witness ==
    /\ pc = "allocated"
    /\ \E k \in UsersOutsideWindow :
         /\ ctrl.users[k].arrival_time > epoch.start_time
         /\ ctrl.users[k].arrival_time < epoch.end_time
         /\ ~StationOccupied(ctrl.users[k].station_id)
         /\ \E i \in 1..Len(PowerRequirementsSent) :
              /\ PowerRequirementsSent[i].station_id = ctrl.users[k].station_id
              /\ PowerRequirementsSent[i].user_id = 0
    /\ \E i \in 1..Len(PowerRequirementsSent) :
         /\ PowerRequirementsSent[i].power > 0
         /\ UserOf(PowerRequirementsSent[i].user_id).target_time = epoch.end_time

\* C11 (as claimed): as above, but the station of every user outside its window
\* receives a zero-power directive whenever it reported, occupied or not.
C11_StationOfAbsentUserGetsZero ==
    pc = "allocated" =>
        /\ NoSlotOutsideWindow
        /\ \A k \in UsersOutsideWindow :
             ctrl.users[k].station_id \in StationIds(ctrl.stations) =>
                 \E i \in 1..Len(PowerRequirementsSent) :
                     /\ PowerRequirementsSent[i].station_id = ctrl.users[k].station_id
                     /\ PowerRequirementsSent[i].power = 0

\* C12: every station that reported StationState and has no connected user gets
\* exactly one PowerRequirement, with user_id = 0 and power = 0, whatever the
\* available capacity; with a capacity of 0 or less every message carries power 0.
C12_VacantSlots ==
    pc = "allocated" =>
        /\ \A sid \in StationIds(ctrl.stations) :
             ~StationOccupied(sid) =>
                /\ Cardinality({i \in 1..Len(PowerRequirementsSent) :
                                   PowerRequirementsSent[i].station_id = sid}) = 1
                /\ \A i \in 1..Len(PowerRequirementsSent) :
                     PowerRequirementsSent[i].station_id = sid =>
                        /\ PowerRequirementsSent[i].user_id = 0
                        /\ PowerRequirementsSent[i].power = 0
        /\ ctrl.current_available_power <= 0 =>
             \A i \in 1..Len(PowerRequirementsSent) : PowerRequirementsSent[i].power = 0

\* C12 witness: with a capacity below zero the burst holds a vacant slot and the
\* slot of a connected user that is below its target and gets nothing.
C12_Witness ==
    /\ pc = "allocated"
    /\ ctrl.current_available_power < 0
    /\ \E i, j \in 1..Len(PowerRequirementsSent) :
         /\ PowerRequirementsSent[i].user_id # 0
         /\ UserOf(PowerRequirementsSent[i].user_id).target_state_of_charge
                > UserOf(PowerRequirementsSent[i].user_id).state_of_charge
         /\ PowerRequirementsSent[i].power = 0
         /\ PowerRequirementsSent[j].user_id = 0
         /\ PowerRequirementsSent[j].power = 0

----------------------------------------------------------------------------
(* Properties of the controller over the epochs (Spec)                     *)

\* what the current epoch has delivered to the controller
DeliveredOfType(type) == {m \in hist.delivered : m.type = type}
StationsReported == {m.station_id : m \in DeliveredOfType("StationState")}
UsersReported == {m.user_id : m \in DeliveredOfType("UserState")}
CarsReported == {m.user_id : m \in DeliveredOfType("CarState")}
GridStateDelivered == DeliveredOfType("GridState") # {}

\* C4: with every message delivered once, an epoch has at most one
\* PowerRequirement burst, and none before the epoch has brought StationState
\* from total_stations distinct stations and UserState from total_users distinct
\* users, the controller holding the CarMetaData of total_users users.
C4_BurstOnceAfterSnapshot ==
    hist.replays = 0 =>
        /\ hist.bursts <= 1
        /\ hist.bursts >= 1 =>
             /\ Cardinality(StationsReported) >= ctrl.total_station_count
             /\ Cardinality(UsersReported) >= ctrl.total_user_count
             /\ Cardinality(UserIds(ctrl.users)) >= ctrl.total_user_count

\* C4 witness: the second epoch's burst has just been emitted, for two users and
\* two stations, nothing having been delivered twice.
C4_Witness ==
    /\ hist.replays = 0
    /\ epoch.number = 2
    /\ hist.bursts = 1
    /\ ctrl.total_user_count = 2
    /\ ctrl.total_station_count = 2
    /\ Len(PowerRequirementsSent) = 2

\* C5: a PowerRequirement burst is emitted in an epoch only after a GridState
\* message was received during that epoch.
C5_BurstAfterEpochGridState == hist.bursts >= 1 => GridStateDelivered

\* C6: delivering again a message the controller has handled in this epoch
\* changes no controller variable and publishes nothing.
C6_ReplayIdempotent ==
    \A m \in hist.delivered :
        V2G_general_message_handler(ctrl, epoch, m) = [c |-> ctrl, sent |-> <<>>]

\* C7: the controller completes an epoch only after the epoch has brought a
\* CarState from each of the total_users distinct users, whatever is delivered
\* more than once.
C7_CompletionNeedsAllCarStates ==
    (epoch.number >= 1 /\ ctrl.completed_epoch = epoch.number) =>
        Cardinality(CarsReported) >= ctrl.total_user_count

\* the handler leaves the controller as it is and publishes nothing
Ignored(m) == V2G_general_message_handler(ctrl, epoch, m) = [c |-> ctrl, sent |-> <<>>]

\* C21: a CarMetaData for a user the controller knows, a StationState for a
\* station it has recorded in the epoch, and a UserState or CarState for a user
\* without metadata leave the user list, the station list and every counter as
\* they are and cause no burst.
C21_ProtocolViolationsIgnored ==
    epoch.number >= 1 =>
        /\ \A i \in 1..Len(usr) :
             IF usr[i].user_id \in UserIds(ctrl.users)
             THEN Ignored(CarMetaDataMessage(usr[i].user_id, usr[i].station_id,
                                             usr[i].state_of_charge,
                                             usr[i].car_battery_capacity, usr[i].car_max_power))
             ELSE /\ Ignored(UserStateMessage(usr[i].user_id, usr[i].target_time,
                                              usr[i].arrival_time))
                  /\ Ignored(CarStateMessage(usr[i].user_id, usr[i].station_id,
                                             usr[i].state_of_charge))
        /\ \A j \in 1..Len(stn) :
             stn[j].station_id \in StationIds(ctrl.stations) =>
                 Ignored(StationStateMessage(stn[j].station_id, stn[j].max_power,
                                             stn[j].charging_cost, stn[j].compensation_amount))

\* C21 witness: the epoch has brought nothing but CarMetaData, StationState and
\* the UserState of a user without metadata, some of it twice, and the
\* controller's lists and counters hold each user and station once and no
\* UserState.
C21_Witness ==
    /\ epoch.number = 1
    /\ hist.replays >= 1
    /\ \E m \in hist.delivered : m.type = "UserState" /\ m.user_id \notin UserIds(ctrl.users)
    /\ \E m \in hist.delivered : m.type = "StationState"
    /\ \A m \in hist.delivered :
         \/ m.type \in {"CarMetaData", "StationState"}
         \/ m.type = "UserState" /\ m.user_id \notin UserIds(ctrl.users)
    /\ ctrl.epoch_car_metadata_count = Len(ctrl.users)
    /\ Len(ctrl.users) = 1
    /\ ctrl.epoch_station_state_count = Len(ctrl.stations)
    /\ Len(ctrl.stations) = Cardinality(StationsReported)
    /\ ctrl.epoch_user_state_count = 0
    /\ ctrl_sent = <<>>

\* C22: the controller is Ready for an epoch only once the PowerRequirement
\* burst and the CarDischargePowerRequirement burst of the epoch have been
\* emitted, and once it is Ready it publishes nothing more in the epoch.
C22_BurstsBeforeReady ==
    [][/\ (epoch'.number >= 1 /\ ctrl'.completed_epoch = epoch'.number) =>
            /\ ctrl'.power_requirement_message_sent
            /\ ctrl'.send_car_discharge_power_requirement
            /\ hist'.bursts >= 1
       /\ (epoch.number >= 1 /\ ctrl.completed_epoch = epoch.number /\ epoch' = epoch) =>
            ctrl_sent' = <<>>]_vars

\* C22 witness: the controller is Ready for the second epoch, whose burst went
\* out to two stations; every user's CarState arrived, some message was
\* delivered twice, and the last message handled was answered with nothing.
C22_Witness ==
    /\ epoch.number = 2
    /\ ctrl.completed_epoch = 2
    /\ hist.bursts = 1
    /\ ctrl.total_station_count = 2
    /\ Cardinality(CarsReported) = ctrl.total_user_count
    /\ hist.replays >= 1
    /\ ctrl_sent = <<>>

----------------------------------------------------------------------------
(* Properties of the User agent (SpecUser)                                 *)

\* C8: the User agent's state_of_charge stays within 0..100 after any sequence
\* of PowerOutput and CarDischargePowerRequirement messages.
C8_StateOfChargeInRange ==
    \A i \in 1..Len(usr) :
        usr[i].state_of_charge >= Pct(0) /\ usr[i].state_of_charge <= Pct(100)

----------------------------------------------------------------------------
(* Properties of the whole system (SpecSys)                                *)

\* no component has a message left to handle: under fair scheduling this is
\* where an epoch's activity ends, and only the Manager can move on from it
Quiescent ==
    /\ net.ctrl = <<>>
    /\ net.grid = <<>>
    /\ \A j \in 1..Len(stn) : net.stn[j] = <<>>
    /\ \A i \in 1..Len(usr) : net.usr[i] = <<>>

\* C3: with exactly-once delivery and fair scheduling, in every epoch the Grid,
\* every Station, every User and the Controller are eventually all Ready,
\* wherever the users' [arrival_time, target_time] windows lie: once every
\* published message has been handled, no component is left waiting.
C3_EpochProgress == (epoch.number >= 1 /\ Quiescent) => AllReady

----------------------------------------------------------------------------
(* Properties of the controller's use of the preferences (SpecPref)        *)

\* the user of the last UserState or CarState, as the controller holds it now
LastUser == UserOf(hist.last.user_id)

\* C13: at any time of an epoch a user's discharge flag is set if and only if
\* the four conditions (a preferences row, the grid under load in the hour of
\* the epoch's start, the user's station reported in the epoch, the row's
\* DischargePriceThreshold <= the station's compensation_amount) held when they
\* were evaluated for the user in that epoch.
C13_DischargeFlagEpochScoped ==
    pc = "pref" =>
        \A k \in 1..Len(ctrl.users) :
            ctrl.users[k].discharge <=> ctrl.users[k].user_id \in hist.due

\* C15: a CarState with soc above the target, of a user for whom the discharge
\* conditions hold, lowers the target to max(soc - 10, MinimumSOC * 100) and
\* sets required_energy to 0; a CarDischargePowerRequirement for the user
\* carries car_battery_capacity * (soc - target) / 100.
C15_DischargeLowersTarget ==
    (/\ pc = "pref"
     /\ hist.last.type = "CarState"
     /\ hist.last.due
     /\ hist.last.soc > hist.last.target) =>
        /\ LastUser.target_state_of_charge
               = Max2(hist.last.soc - Pct(10), PreferenceRow(hist.last.user_id).MinimumSOC)
        /\ LastUser.required_energy = 0
        /\ \A i \in 1..Len(DischargeRequirementsSent) :
             DischargeRequirementsSent[i].user_id = hist.last.user_id =>
                 DischargeRequirementsSent[i].power
                     = LastUser.car_battery_capacity
                           * (LastUser.state_of_charge - LastUser.target_state_of_charge)

\* C16: a CarState with soc equal to the target (below 100), of a user that is
\* not flagged for discharge and whose MaxCostForCharging >= its station's
\* charging_cost, raises the target to 100 and sets
\* required_energy = car_battery_capacity * (100 - soc) / 100.
C16_WillingToPayRaisesTarget ==
    (/\ pc = "pref"
     /\ hist.last.type = "CarState"
     /\ hist.last.willing) =>
        /\ LastUser.target_state_of_charge = Pct(MAX_STATE_OF_CHARGE)
        /\ LastUser.required_energy
               = LastUser.car_battery_capacity * (Pct(MAX_STATE_OF_CHARGE) - hist.last.soc)

\* C17: after a handled UserState or CarState the user's required_energy is
\* car_battery_capacity * max(0, target_state_of_charge - state_of_charge) / 100,
\* never negative.
C17_RequiredEnergyFormula ==
    (pc = "pref" /\ hist.last.type \in {"UserState", "CarState"}) =>
        LastUser.required_energy
            = LastUser.car_battery_capacity
                  * Max2(0, LastUser.target_state_of_charge - LastUser.state_of_charge)

\* C18: after a handled UserState a user with a row in the preferences file has
\* target_state_of_charge = MinimumSOC * 100 of its row; a user without a row
\* has the default 50 and is not flagged for discharge.
C18_PreferenceRowSetsTarget ==
    (pc = "pref" /\ hist.last.type = "UserState") =>
        IF HasPreferenceRow(hist.last.user_id)
        THEN LastUser.target_state_of_charge = PreferenceRow(hist.last.user_id).MinimumSOC
        ELSE /\ LastUser.target_state_of_charge = Pct(DEFAULT_MIN_STATE_OF_CHARGE)
             /\ ~LastUser.discharge


----------------------------------------------------------------------------
(* Properties of the discharge burst (SpecDischarge)                       *)

----------------------------------------------------------------------------
(* Properties of the User agent at the start of an epoch (SpecUser)        *)

\* the user has just started the epoch: its UserState is what it published
UserStateJustSent == \E i \in 1..Len(net) : net[i].type = "UserState"

\* C19: at the start of an epoch the user holds power_output_received (and so
\* publishes CarState without a PowerOutput) exactly when the epoch is not
\* contained in [arrival_time, target_time], i.e. exactly when the controller
\* does not count the user as connected.
C19_VacuousPowerOutput ==
    (pc = "user" /\ epoch.number >= 1 /\ UserStateJustSent) =>
        /\ usr[1].power_output_received <=> ~WindowContainsEpoch(usr[1])
        /\ usr[1].car_state_sent <=> ~WindowContainsEpoch(usr[1])

----------------------------------------------------------------------------
(* Properties of the allocation of an epoch of no length (SpecZeroLength)  *)

\* the slots of the burst: the PowerInfos the loop goes through
BurstSlots ==
    _calculate_power_requirements(ctrl.stations, SortedByKey(SelectConnected(ctrl.users, epoch)))

\* C20: when the epoch length is not above 0 the burst completes, with one
\* PowerRequirement per slot and power 0 in each, also when a connected user is
\* below its target and capacity is available.
C20_NoLengthAllocatesNothing ==
    pc = "allocated" =>
        /\ ctrl.power_requirement_message_sent
        /\ Len(PowerRequirementsSent) = Len(BurstSlots)
        /\ \A i \in 1..Len(PowerRequirementsSent) : PowerRequirementsSent[i].power = 0

----------------------------------------------------------------------------
(* Properties of SpecStation                                               *)

\* the PowerOutput messages the station published in its last step
OutputsPublished == SelectSeq(net, LAMBDA m : m.type = "PowerOutput")

\* C23: a station publishes at most one PowerOutput per epoch, each one
\* carries the station's id and the user_id and power of a PowerRequirement
\* the station received for itself in the epoch, and a PowerRequirement for
\* another station changes nothing in the station and publishes nothing.
C23_OnePowerOutputPerEpoch ==
    [][/\ hist'.outputs <= 1
       /\ \A i \in 1..Len(net') :
            net'[i].type = "PowerOutput" =>
                /\ net'[i].station_id = stn'[1].station_id
                /\ <<net'[i].user_id, net'[i].power_output>> \in hist'.required
       /\ (hist'.last.type = "PowerRequirement"
             /\ hist'.last.station_id # stn[1].station_id) =>
                /\ stn' = stn
                /\ net' = <<>>]_vars

\* the station, told that the grid is under load, has received two different
\* PowerRequirement messages for itself and published one PowerOutput, and
\* has just received a PowerRequirement for another station
C23_Witness ==
    /\ pc = "station"
    /\ hist.outputs = 1
    /\ Cardinality(hist.required) = 2
    /\ hist.last.type = "PowerRequirement"
    /\ hist.last.station_id # stn[1].station_id
    /\ stn[1].completed_epoch # epoch.number
    /\ net = <<>>

\* the PowerDischargeStationToGrid messages among sent
ToGridPublished(sent) == SelectSeq(sent, LAMBDA m : m.type = "PowerDischargeStationToGrid")

\* C28: for each PowerDischargeCarToStation for the station, the station
\* publishes exactly one PowerDischargeStationToGrid carrying its energy,
\* and no other message of the epoch makes it report a discharge again.
C28_DischargeForwardedOnce ==
    [][/\ (hist'.last.type = "PowerDischargeCarToStation" /\ ForStation(stn[1], hist'.last)) =>
            /\ Len(ToGridPublished(net')) = 1
            /\ ToGridPublished(net')[1].power = hist'.last.power
       /\ (hist'.last.type # "PowerDischargeCarToStation" \/ ~ForStation(stn[1], hist'.last)) =>
            ToGridPublished(net') = <<>>]_vars

\* C29: total_charging_cost is the sum, over the epochs so far, of the power
\* of the epoch's PowerOutput times charging_cost: it grows once in each
\* epoch in which the station published PowerOutput, is published at most
\* once per epoch with that value, and is not reset by a new epoch.
C29_TotalChargingCostAccumulates ==
    pc = "station" =>
        /\ stn[1].total_charging_cost = hist.expected_cost
        /\ hist.costs <= 1
        /\ hist.costs = hist.outputs
        /\ \A i \in 1..Len(net) :
             net[i].type = "TotalChargingCost" =>
                 net[i].total_charging_cost = hist.expected_cost

\* second epoch: the station has forwarded a PowerRequirement of this epoch,
\* published the total once, and the total holds more than this epoch's cost
C29_Witness ==
    /\ pc = "station"
    /\ epoch.number = 2
    /\ hist.outputs = 1
    /\ hist.costs = 1
    /\ hist.handled >= 2
    /\ stn[1].power_output > 0
    /\ stn[1].total_charging_cost > stn[1].power_output * stn[1].charging_cost
    /\ \E i \in 1..Len(net) : net[i].type = "TotalChargingCost"

\* the epoch's messages satisfy one of the two conditions for Ready
StationReadyCondition ==
    \/ ~stn[1].grid_load_status /\ hist.required # {} /\ hist.outputs >= 1
    \/ stn[1].grid_load_status /\ hist.discharged >= 1 /\ hist.to_grid >= 1

\* C30: whenever process_epoch has run, it returned True (the station is
\* Ready for the epoch) exactly when the recorded grid-load status is false
\* and a PowerRequirement was received and PowerOutput published this epoch,
\* or the status is true and a PowerDischargeCarToStation was received and
\* forwarded this epoch.
C30_ReadyCondition ==
    (pc = "station" /\ hist.ran) =>
        ((stn[1].completed_epoch = epoch.number) <=> StationReadyCondition)

\* under load the station forwarded a PowerRequirement without becoming
\* Ready, and the PowerDischargeCarToStation it has just forwarded made it so
C30_Witness ==
    /\ pc = "station"
    /\ hist.ran
    /\ stn[1].grid_load_status
    /\ hist.required # {}
    /\ hist.outputs = 1
    /\ hist.discharged = 1
    /\ hist.last.type = "PowerDischargeCarToStation"
    /\ stn[1].completed_epoch = epoch.number

----------------------------------------------------------------------------
(* Properties of SpecGrid                                                  *)

\* C24: every GridState the grid publishes carries the capacity that the
\* reports received so far add up to, starting from total_max_power_output,
\* each PowerDischargeStationToGrid(power = d) applied once as
\* min(total_max_power_output, current_power + d).
C24_ReportsAppliedOnce ==
    pc = "grid" =>
        \A i \in 1..Len(net) :
            net[i].type = "GridState" => net[i].current_power = hist.expected

----------------------------------------------------------------------------
(* Properties of SpecUserBus                                               *)

NotFirstForUser(h, u) ==
    \/ ~ForUser(u, h.last)
    \/ h.last.type = "PowerOutput" /\ h.power_outputs >= 2
    \/ h.last.type = "CarDischargePowerRequirement" /\ h.directives >= 2

\* the fields clear_epoch_variables resets, with state_of_charge
EpochFields(u) ==
    <<u.state_of_charge, u.user_state_sent, u.car_state_sent, u.power_output_received,
      u.power_discharge_car_to_station_message_sent,
      u.car_discharge_power_requirement_received>>

\* C26: a PowerOutput or CarDischargePowerRequirement for another
\* (station_id, user_id) pair, and a second one for the user in the same
\* epoch, leaves state_of_charge and the per-epoch flags as they were and
\* publishes nothing; in an epoch PowerOutput messages change
\* state_of_charge at most once and discharge directives at most once.
C26_ForeignAndRepeatedIgnored ==
    [][/\ (hist'.last.type \in {"PowerOutput", "CarDischargePowerRequirement"}
             /\ NotFirstForUser(hist', usr[1])) =>
                /\ EpochFields(usr'[1]) = EpochFields(usr[1])
                /\ net' = <<>>
       /\ hist'.charged <= 1
       /\ hist'.discharged <= 1]_vars

\* the user was charged by a first PowerOutput, heard a PowerOutput for
\* another pair, and has just ignored a second PowerOutput of its own
C26_Witness ==
    /\ pc = "userbus"
    /\ hist.power_outputs = 2
    /\ hist.foreign = 1
    /\ hist.charged = 1
    /\ hist.last.type = "PowerOutput"
    /\ ForUser(usr[1], hist.last)
    /\ hist.last.power_output > 0
    /\ usr[1].state_of_charge < Pct(100)
    /\ net = <<>>

\* the PowerDischargeCarToStation messages among sent
DischargesPublished(sent) == SelectSeq(sent, LAMBDA m : m.type = "PowerDischargeCarToStation")

\* C27: on the first CarDischargePowerRequirement for the user in an epoch,
\* the user records the energy power * epoch_seconds / 3600, lowers its
\* state_of_charge by that energy, and publishes exactly one
\* PowerDischargeCarToStation carrying the energy, on a topic its station
\* listens to.
C27_DischargeReportedToStation ==
    [][(hist'.last.type = "CarDischargePowerRequirement"
          /\ ForUser(usr[1], hist'.last) /\ hist'.directives = 1) =>
            /\ usr'[1].discharged_power =
                   (hist'.last.power * (epoch.end_time - epoch.start_time)) \div HourSeconds
            /\ usr'[1].state_of_charge =
                   (usr[1].car_battery_capacity * usr[1].state_of_charge
                        - usr'[1].discharged_power) \div usr[1].car_battery_capacity
            /\ Len(DischargesPublished(net')) = 1
            /\ DischargesPublished(net')[1].power = usr'[1].discharged_power
            /\ User_topic_name(DischargesPublished(net')[1]) \in Station_other_topics]_vars

----------------------------------------------------------------------------
(* Properties of the topics                                                *)

\* the directives among sent
Directives(sent) ==
    SelectSeq(sent, LAMBDA m : m.type \in {"PowerRequirement", "CarDischargePowerRequirement",
                                           "PowerOutput"})

\* C31: with the default topic names every PowerRequirement and
\* CarDischargePowerRequirement of the controller is published on a topic the
\* stations listen to, and every PowerOutput and CarDischargePowerRequirement
\* of a station on a topic the users listen to.
C31_DirectivesReachRecipients ==
    /\ \A i \in 1..Len(Directives(ctrl_sent)) :
         V2G_topic_name(Directives(ctrl_sent)[i]) \in Station_other_topics
    /\ pc = "station" =>
         \A i \in 1..Len(Directives(net)) :
             Station_topic_name(Directives(net)[i]) \in User_other_topics

----------------------------------------------------------------------------
(* Properties of the charging step, end to end (SpecSys)                   *)

\* user i is about to handle the first PowerOutput addressed to it in the epoch
ChargedNext(i) ==
    /\ net.usr[i] # <<>>
    /\ Head(net.usr[i]).type = "PowerOutput"
    /\ ForUser(usr[i], Head(net.usr[i]))
    /\ ~usr[i].power_output_received

\* the single-user scenario: battery 40, soc 20 at the start, car_max 22,
\* station_max 22, capacity 50, one-hour epochs inside the user's window; the
\* preferences file has MinimumSOC 0.8 for the user
SingleUserScenario ==
    /\ pc = "sys"
    /\ Len(usr) = 1
    /\ <<usr[1].arrival_time, usr[1].target_time>> = WindowContaining
    /\ grid.total_max_power_output = KW(50)
    /\ epoch.number = 1

\* C32: a user that handles a PowerOutput(power = p) addressed to it sets
\* soc := min(100, soc + (p * epoch_seconds / 3600) / battery_capacity * 100);
\* in the single-user scenario the controller's PowerRequirement for the user
\* carries power 22 and the user ends the first epoch with soc 75.
C32_ChargingStep ==
    [][/\ \A i \in 1..Len(usr) :
            (ChargedNext(i) /\ usr'[i] # usr[i]) =>
                usr'[i].state_of_charge =
                    Min2(Pct(100),
                         usr[i].state_of_charge
                             + ((Head(net.usr[i]).power_output
                                    * (epoch.end_time - epoch.start_time)) \div HourSeconds)
                                   \div usr[i].car_battery_capacity)
       /\ SingleUserScenario' =>
            /\ \A k \in 1..Len(ctrl_sent') :
                 (ctrl_sent'[k].type = "PowerRequirement" /\ ctrl_sent'[k].user_id = 1) =>
                     ctrl_sent'[k].power = KW(22)
            /\ usr'[1].completed_epoch = 1 => usr'[1].state_of_charge = Pct(75)]_vars

----------------------------------------------------------------------------
(* Properties of the controller's handlers as coroutines (SpecReentrant)   *)

\* the PowerRequirement messages published in the epoch
PublishedRequirements == SelectSeq(ctrl_sent, LAMBDA m : m.type = "PowerRequirement")

\* C33: although a second handler may run process_epoch while a first one is
\* suspended in a publish of the PowerRequirement burst, the burst is entered
\* once in the epoch, no (station_id, user_id) slot is published twice, and
\* the power published stays within the available capacity, so that
\* _used_total_power is not consumed twice.
C33_BurstOnceUnderReentrancy ==
    pc = "reentrant" =>
        /\ hist.bursts <= 1
        /\ \A i, j \in 1..Len(PublishedRequirements) :
             (i < j) =>
                 <<PublishedRequirements[i].station_id, PublishedRequirements[i].user_id>>
                     # <<PublishedRequirements[j].station_id, PublishedRequirements[j].user_id>>

\* min(station.max_power, car.max_power, required_energy / epoch_hours) of the
\* connected user addressed by the PowerRequirement m
Uncontended(m) ==
    Min2(Min2(FirstStation(ctrl.stations, m.station_id).max_power,
              UserOf(m.user_id).car_max_power),
         (UserOf(m.user_id).required_energy * HourSeconds)
             \div (epoch.end_time - epoch.start_time))

\* C34: priority under contention: a connected user is sent power > 0 only if
\* every connected user that precedes it in the order (target_time ascending,
\* required_energy descending) and has target_soc > soc was sent its full
\* uncontended amount min(station.max_power, car.max_power, required_energy /
\* epoch_hours).
C34_PriorityUnderContention ==
    pc = "allocated" =>
        \A i, j \in 1..Len(PowerRequirementsSent) :
            LET a == PowerRequirementsSent[i]
                b == PowerRequirementsSent[j]
            IN  (/\ a.user_id # 0
                 /\ b.user_id # 0
                 /\ b.power > 0
                 /\ KeyLess(UserOf(a.user_id), UserOf(b.user_id))
                 /\ UserOf(a.user_id).target_state_of_charge
                        > UserOf(a.user_id).state_of_charge)
                    => a.power = Uncontended(a)

\* C34 witness: contention: the user first in the order is cut to the capacity
\* that is left, below its uncontended amount, and a later user that still
\* wants energy is sent 0.
C34_Witness ==
    /\ pc = "allocated"
    /\ \E i, j \in 1..Len(PowerRequirementsSent) :
         LET a == PowerRequirementsSent[i]
             b == PowerRequirementsSent[j]
         IN  /\ a.user_id # 0
             /\ b.user_id # 0
             /\ KeyLess(UserOf(a.user_id), UserOf(b.user_id))
             /\ a.power > 0
             /\ a.power < Uncontended(a)
             /\ a.power = ctrl.current_available_power
             /\ UserOf(b.user_id).target_state_of_charge > UserOf(b.user_id).state_of_charge
             /\ b.power = 0

\* C35: the CarState a user publishes in an epoch reflects all state_of_charge
\* updates of that epoch: when the Epoch message of epoch E+1 arrives, the
\* state_of_charge the controller stores for the user equals the user's own, for
\* every order in which PowerOutput and CarDischargePowerRequirement were delivered
\* to the user in epoch E.
C35_CarStateReflectsEpoch ==
    [][(pc = "userbus" /\ epoch.number >= 1 /\ epoch'.number = epoch.number + 1)
          => UserOf(1).state_of_charge = usr[1].state_of_charge]_vars

\* C36: for every user with a row in the preferences file, once the controller
\* has handled the user's first UserState, target_state_of_charge stays within
\* [MinimumSOC * 100, 100] after every later UserState and CarState (the reported
\* state_of_charge values being within 0..100).
C36_TargetWithinPreference ==
    pc = "pref" =>
        \A k \in 1..Len(ctrl.users) :
            (/\ HasPreferenceRow(ctrl.users[k].user_id)
             /\ epoch.number >= 2 \/ PrefSeen("UserState", ctrl.users[k].user_id))
                => /\ ctrl.users[k].target_state_of_charge
                          >= PreferenceRow(ctrl.users[k].user_id).MinimumSOC
                   /\ ctrl.users[k].target_state_of_charge <= Pct(MAX_STATE_OF_CHARGE)

C39_OneGridStatePerEpoch ==
    [][pc = "grid" =>
          /\ epoch' # epoch =>
                /\ CountOf(net', "GridState") = 1
                /\ grid'.completed_epoch = epoch'.number
                /\ ~grid'.power_discharge_station_to_grid_received
          /\ epoch' = epoch =>
                /\ CountOf(net', "GridState") = 0
                /\ Grid_process_epoch(grid', epoch).sent = <<>>
                /\ Grid_process_epoch(grid', epoch).ret]_vars

\* C39 witness: an epoch in which two discharge reports have been handled after
\* the GridState was published, the grid being Ready.
C39_Witness ==
    /\ pc = "grid"
    /\ epoch.number >= 1
    /\ hist.reports = 2
    /\ grid.power_discharge_station_to_grid_received
    /\ grid.grid_state_sent
    /\ grid.completed_epoch = epoch.number
    /\ net = <<>>

\* C40: the controller's metadata condition is latched and its user records
\* persist: no step, the Epoch step with clear_epoch_variables included, removes
\* a user record, lowers the metadata count or clears the condition, and once
\* CarMetaData of total_user_count distinct users has been handled the condition
\* is true, in that epoch and in every later one.
C40_MetaDataLatched ==
    [][pc = "run" =>
          /\ Len(ctrl'.users) >= Len(ctrl.users)
          /\ \A k \in 1..Len(ctrl.users) : ctrl'.users[k].user_id = ctrl.users[k].user_id
          /\ ctrl'.epoch_car_metadata_count >= ctrl.epoch_car_metadata_count
          /\ ctrl.car_metadata_received => ctrl'.car_metadata_received
          /\ Cardinality(hist'.metadata) = ctrl'.total_user_count =>
                /\ ctrl'.car_metadata_received
                /\ ctrl'.epoch_car_metadata_count = ctrl'.total_user_count
                /\ UserIds(ctrl'.users) = hist'.metadata]_vars

\* C40 witness: a second epoch in which no CarMetaData has been delivered, and
\* whose PowerRequirement burst for two users has been sent on the condition
\* latched in the first epoch.
C40_Witness ==
    /\ pc = "run"
    /\ epoch.number = 2
    /\ \A m \in hist.delivered : m.type # "CarMetaData"
    /\ ctrl.total_user_count = 2
    /\ Len(ctrl.users) = 2
    /\ ctrl.car_metadata_received
    /\ ctrl.power_requirement_message_sent
    /\ hist.bursts = 1

============================================================================
